---- MODULE Spec2Model ----
(***************************************************************************)
(* The Block Coordinator of the ledger node: the state machine of          *)
(* BlockCoordinator (block_coordinator.cpp, held in                        *)
(* src/libs/ledger/tests/chaincode/fake_storage_unit.hpp from line 148)    *)
(* together with the collaborators it drives: the main chain, the state    *)
(* store, the execution engine, the transaction index, the block packer,   *)
(* the proof miner and the optional stake oracle, DAG and synergetic       *)
(* execution manager.                                                      *)
(*                                                                         *)
(* Digests are numbers, a Merkle root is the set of transaction digests    *)
(* whose effects the state holds (equal blocks at equal state yield equal  *)
(* roots), a block pointer is a block record or NullBlock.                 *)
(***************************************************************************)
EXTENDS Integers, Sequences, FiniteSets, TLC

\* ------------------------------------------------------------ constants
GENESIS_DIGEST == 0
GENESIS_MERKLE_ROOT == {}
DIGEST_LENGTH_BYTES == 32
THRESHOLD_FOR_FAST_SYNCING == 100
WAIT_BEFORE_ASKING_FOR_MISSING_TX_INTERVAL == 30000
WAIT_FOR_TX_TIMEOUT_INTERVAL == 30000
COMMON_PATH_TO_ANCESTOR_LENGTH_LIMIT == 5000
\* the delays the handlers request from the state machine, in milliseconds
TxWaitDelay == 200
SynchronisedDelay == 100

\* the digest of a block whose proof has not closed it yet (an empty array)
EmptyDigest == -1

\* ------------------------------------------------------------ bounds
\* height of the longest chain of blocks the node starts with
LongHeight == 101
\* how many blocks minted by this node may follow one another
MaxMintDepth == 1
\* the block period, in units of SynchronisedDelay
BlockPeriodTicks == 1

\* blocks that peers deliver in one run
MaxDeliveries == 2
\* calls of Reset() in one run
MaxResets == 1
\* the blocks above genesis a node of the main-line runs starts with
LineHeight == 3

\* ------------------------------------------------------------ data
State == {"RELOAD_STATE", "SYNCHRONISING", "SYNCHRONISED",
          "PRE_EXEC_BLOCK_VALIDATION", "WAIT_FOR_TRANSACTIONS",
          "SYNERGETIC_EXECUTION", "SCHEDULE_BLOCK_EXECUTION",
          "WAIT_FOR_EXECUTION", "POST_EXEC_BLOCK_VALIDATION",
          "PACK_NEW_BLOCK", "NEW_SYNERGETIC_EXECUTION", "EXECUTE_NEW_BLOCK",
          "WAIT_FOR_NEW_BLOCK_EXECUTION", "PROOF_SEARCH", "TRANSMIT_BLOCK",
          "RESET"}

\* the state of a driver whose handler did not return (abort, fault)
Aborted == "ABORTED"

ExecutionState == {"IDLE", "ACTIVE", "TRANSACTIONS_UNAVAILABLE",
                   "EXECUTION_ABORTED", "EXECUTION_FAILED"}

ScheduleStatus == {"SCHEDULED", "NOT_STARTED", "ALREADY_RUNNING"}

BlockStatus == {"ADDED", "LOOSE", "DUPLICATE", "INVALID"}

\* the transaction digests of the model
Digests == {1, 2}

\* the DAG nodes of the model
DagNodes == {1}

NullBlock == [null |-> TRUE]

NullSet == {-1}

\* Block: body (hash, previous_hash, block_number, miner, merkle_hash,
\* slices, log2_num_lanes), weight.  txs is the set of digests of all slices,
\* num_slices is slices.size(), previous_hash_size is previous_hash.size().
Block(h, prev, num, mk, txs) ==
  [hash |-> h, previous_hash |-> prev, block_number |-> num,
   merkle_hash |-> mk, txs |-> txs, miner |-> "peer", weight |-> 1,
   log2_num_lanes |-> 0, num_slices |-> 1, dag_epoch |-> {},
   previous_hash_size |-> DIGEST_LENGTH_BYTES]

\* the main line of blocks: the genesis block (previous_hash = GENESIS_DIGEST)
\* and its successors; the block at height 1 carries transaction 1
MainBlock(n) ==
  Block(n + 1, n, n, IF n = 0 THEN GENESIS_MERKLE_ROOT ELSE {1},
        IF n = 1 THEN {1} ELSE {})

\* blocks that peers may deliver while the node runs
ForkBlock2 == Block(201, 2, 2, {1, 2}, {2})
\* its epoch needs DAG node 1
ForkBlock3 == [Block(202, 201, 3, {1, 2}, {}) EXCEPT !.dag_epoch = {1}]
\* declares a Merkle root its execution does not produce
WrongRootBlock == Block(203, 2, 2, {2}, {})
\* declares a block number that does not follow its parent's
WrongNumberBlock == Block(204, 2, 3, {1}, {})
\* a long line that forks from the main line after height 1; its first block
\* declares a block number that does not follow its parent's
LongBlock(n) ==
  IF n <= 1 THEN MainBlock(n)
  ELSE Block(300 + n, IF n = 2 THEN MainBlock(1).hash ELSE 299 + n, n + 1,
             {1}, {})

Max(S) == CHOOSE x \in S : \A y \in S : y <= x

Min(S) == CHOOSE x \in S : \A y \in S : x <= y

\* ------------------------------------------------------------ state
VARIABLES
  \* the state machine
  state, previous_state,
  \* BlockCoordinator members
  current_block, next_block, pending_txs, blocks_to_common_ancestor,
  last_executed_block, have_asked_for_missing_txs,
  wait_before_asking_for_missing_tx, wait_for_tx_timeout, next_block_time,
  mining, mining_enabled, dag, stake, synergetic_exec_mgr,
  \* MainChain
  chain, heaviest,
  \* StorageUnit: current state root, committed (block number, root) pairs,
  \* the transactions it holds
  current_hash, commits, stored_txs,
  \* DAG: the nodes it holds
  dag_nodes,
  \* ExecutionManager
  execution_state, last_processed_block, executing_txs,
  \* what the last step did (observation of the step, not program state)
  obs,
  \* time spent so far in the current stay in WAIT_FOR_TRANSACTIONS
  waited,
  \* highest block number committed in this run and not reverted since
  high,
  \* blocks rejected by post-execution validation since the last entry to
  \* SYNCHRONISING and not delivered again by a peer
  rejected,
  \* hashes of the blocks that passed post-execution validation in this run
  validated,
  \* number of blocks peers have delivered so far
  deliveries,
  \* the blocks the peers of the node hold
  network,
  \* the call of TriggerBlockGeneration() made in this run: "none" before the
  \* call, "off" for a call made with mining off, the state the coordinator
  \* was in for a call made with mining on, "seen" once the SYNCHRONISED
  \* handler has run after such a call
  trigger,
  \* number of calls of Reset() made in this run
  resets

smVars == <<state, previous_state>>

timerVars == <<have_asked_for_missing_txs, wait_before_asking_for_missing_tx,
               wait_for_tx_timeout>>

setupVars == <<mining, mining_enabled, dag, stake, synergetic_exec_mgr,
               network>>

configVars == <<setupVars, trigger, resets>>

chainVars == <<chain, heaviest>>

storeVars == <<current_hash, commits>>

engineVars == <<execution_state, last_processed_block, executing_txs>>

vars == <<state, previous_state, current_block, next_block, pending_txs,
          blocks_to_common_ancestor, last_executed_block,
          have_asked_for_missing_txs, wait_before_asking_for_missing_tx,
          wait_for_tx_timeout, next_block_time, mining, mining_enabled, dag,
          stake, synergetic_exec_mgr, chain, heaviest, current_hash, commits,
          stored_txs, dag_nodes, execution_state, last_processed_block,
          executing_txs, obs, waited, high, rejected, validated, deliveries,
          network, trigger, resets>>

\* ------------------------------------------------------------ MainChain
HasBlock(c, h) == \E b \in c : b.hash = h

GetBlock(c, h) == IF HasBlock(c, h) THEN CHOOSE b \in c : b.hash = h
                  ELSE NullBlock

\* the blocks from b down to the oldest one whose parent is in c, b first
\* (x is bound to the value of b, so that it is computed once)
RECURSIVE Ancestry(_, _)
Ancestry(c, b) ==
  CHOOSE line \in {IF x = NullBlock THEN <<>>
                   ELSE <<x>> \o Ancestry(c, GetBlock(c, x.previous_hash)) :
                   x \in {b}} : TRUE

SeqHashes(s) == {s[i].hash : i \in 1..Len(s)}

\* b or one of its descendants
InSubtree(c, b, h) == h \in SeqHashes(Ancestry(c, b))

\* the heaviest of the blocks of c: the highest one (all weights are equal)
HeaviestOf(c) ==
  IF c = {} THEN GENESIS_DIGEST
  ELSE LET top == Max({b.block_number : b \in c})
       IN  Min({b.hash : b \in {x \in c : x.block_number = top}})

\* a variant that leaves the block in the chain
RemoveNothing(c, hv, h) == [chain |-> c, heaviest |-> hv]

\* removeBlock(hash): the block and everything built on it leave the chain
RemoveBlock(c, hv, h) ==
  LET kept == IF HasBlock(c, h) THEN {b \in c : ~InSubtree(c, b, h)} ELSE c
  IN  [chain |-> kept,
       heaviest |-> IF HasBlock(kept, hv) THEN hv ELSE HeaviestOf(kept)]

\* a block enters the chain: it becomes the heaviest if it is higher
InsertBlock(c, hv, b) ==
  [chain |-> c \cup {b},
   heaviest |-> IF ~HasBlock(c, hv)
                   \/ b.block_number > GetBlock(c, hv).block_number
                THEN b.hash ELSE hv]

\* getPathToCommonAncestor(tip, node, limit, RETURN_LEAST_RECENT): the blocks
\* from tip down to the deepest block shared with node's ancestry; when longer
\* than limit, the limit least recent of them (left and right are bound to
\* the two ancestries, so that each is computed once)
GetPathToCommonAncestor(c, tip, node, limit) ==
  CHOOSE found \in
    {LET hits == {i \in 1..Len(left) : left[i].hash \in right}
     IN  IF hits = {} THEN [success |-> FALSE, path |-> <<>>]
         ELSE LET n    == Min(hits)
                  from == IF n > limit THEN n - limit + 1 ELSE 1
              IN  [success |-> TRUE, path |-> SubSeq(left, from, n)] :
     left \in {Ancestry(c, GetBlock(c, tip))},
     right \in {SeqHashes(Ancestry(c, GetBlock(c, node)))}} : TRUE

\* ------------------------------------------------------------ StorageUnit
HashExists(cm, h, n) ==
  (h = GENESIS_MERKLE_ROOT /\ n = 0) \/ <<n, h>> \in cm

\* revertToHash(h, n): fails when the snapshot is unknown or when the store
\* reports a failure (ok = FALSE); on success the later snapshots are dropped
RevertToHash(cur, cm, h, n, ok) ==
  IF ok /\ HashExists(cm, h, n)
  THEN [success |-> TRUE, current_hash |-> h,
        commits |-> IF h = GENESIS_MERKLE_ROOT /\ n = 0 THEN {}
                    ELSE {c \in cm : c[1] <= n}]
  ELSE [success |-> FALSE, current_hash |-> cur, commits |-> cm]

\* a variant that takes no snapshot
CommitNothing(cur, cm, n) == cm

\* commit(n): the current root becomes the snapshot of block number n
Commit(cur, cm, n) == {c \in cm : c[1] # n} \cup {<<n, cur>>}

\* ------------------------------------------------------------ observations
\* handler: the handler that ran; outcome: "ok", "fail" (the step went to
\* RESET because of a failure) or "abort"; commit: the block whose state the
\* step committed; reverts: the snapshots <<number, root>> the step reverted
\* the store to, in order; removed: the hashes it removed from the chain;
\* notified: the block handed to the stake oracle; cleared: the transient
\* fields that held something when OnReset cleared them
\* marked: the digests it marked EXECUTED in the status cache; asked: the set
\* it handed to IssueCallForMissingTxs; sink: the block it handed to the
\* block sink
NoObs == [handler |-> "none", outcome |-> "ok", commit |-> NullBlock,
          reverts |-> <<>>, removed |-> {}, notified |-> NullBlock,
          cleared |-> {}, marked |-> {}, asked |-> NullSet,
          sink |-> NullBlock]

Did(h) == [NoObs EXCEPT !.handler = h]

Failed(h) == [NoObs EXCEPT !.handler = h, !.outcome = "fail"]

\* the revert belongs to the observation only when it succeeded
Reverted(rv, h, n) == IF rv.success THEN <<(<<n, h>>)>> ELSE <<>>

\* the highest block number committed in this run and not reverted, after
\* the reverts of a step: a revert to the genesis snapshot leaves no commit, a
\* revert to the snapshot of number n leaves the commits up to n
RECURSIVE HighAfter(_, _)
HighAfter(hi, reverts) ==
  IF reverts = <<>> THEN hi
  ELSE LET first == Head(reverts)
           left  == IF first = <<0, GENESIS_MERKLE_ROOT>> THEN -1
                    ELSE IF first[1] < hi THEN first[1] ELSE hi
       IN  HighAfter(left, Tail(reverts))

\* ------------------------------------------------------------ state machine
\* StateMachine::Execute: the handler's result becomes the current state and
\* the state it ran in the previous one
Goto(next) == /\ state' = next
              /\ previous_state' = state

\* the handler did not return
Abort(h) == /\ state' = Aborted
            /\ previous_state' = state
            /\ obs' = [NoObs EXCEPT !.handler = h, !.outcome = "abort"]

\* ------------------------------------------------------------ handlers
\* a variant that forgets the DAG's answer
ReloadSucceededStore(revert_success, revert_success_dag) == revert_success

\* a variant that forgets the store's answer
ReloadSucceededDag(revert_success, revert_success_dag) == revert_success_dag

\* the state was reloaded: the store and the DAG both reverted
ReloadSucceeded(revert_success, revert_success_dag) ==
  revert_success /\ revert_success_dag

\* the handler, given the answers of its collaborators
ReloadStateGiven(revert_ok, revert_success_dag) ==
  /\ state = "RELOAD_STATE"
  /\
       LET cb == IF current_block = NullBlock THEN GetBlock(chain, heaviest)
                 ELSE current_block
       IN
       IF cb = NullBlock
       THEN /\ Abort("OnReloadState")
            /\ UNCHANGED <<current_block, next_block, pending_txs,
                           blocks_to_common_ancestor, last_executed_block,
                           timerVars, next_block_time, configVars, chainVars,
                           storeVars, stored_txs, dag_nodes, engineVars,
                           waited, high,
                           rejected, deliveries, validated>>
       ELSE
       LET rv == RevertToHash(current_hash, commits, cb.merkle_hash,
                              cb.block_number, revert_ok)
           nongenesis == GENESIS_DIGEST # cb.previous_hash
           success == nongenesis
                      /\ ReloadSucceeded(rv.success, revert_success_dag)
           reloaded == rv.success /\ revert_success_dag
           reverts == IF nongenesis
                      THEN Reverted(rv, cb.merkle_hash, cb.block_number)
                      ELSE <<>>
       IN
       /\ (dag \/ revert_success_dag)
       /\ current_block' = cb
       /\ current_hash' = IF nongenesis THEN rv.current_hash ELSE current_hash
       /\ commits' = IF nongenesis THEN rv.commits ELSE commits
       /\ last_processed_block' =
            IF success THEN cb.hash ELSE last_processed_block
       /\ last_executed_block' =
            IF success THEN cb.hash ELSE last_executed_block
       /\ high' = HighAfter(high, reverts)
       /\ obs' = [(IF nongenesis /\ ~reloaded THEN Failed("OnReloadState")
                    ELSE Did("OnReloadState")) EXCEPT !.reverts = reverts]
       /\ Goto("RESET")
       /\ UNCHANGED <<next_block, pending_txs, blocks_to_common_ancestor,
                      timerVars, next_block_time, configVars, chainVars,
                      stored_txs, dag_nodes, execution_state, executing_txs,
                      waited,
                      rejected, deliveries, validated>>

OnReloadState ==
  \E revert_ok \in BOOLEAN, revert_success_dag \in BOOLEAN :
    ReloadStateGiven(revert_ok, revert_success_dag)

\* a variant that forgets to drop the pending transaction digests
ResetFieldsKeepPending(cb, nb, ptx, path) ==
  [current_block |-> NullBlock, next_block |-> NullBlock,
   pending_txs |-> ptx, blocks_to_common_ancestor |-> <<>>,
   next |-> "SYNCHRONISING"]

\* a variant that forgets to drop the block that was being made
ResetFieldsKeepNext(cb, nb, ptx, path) ==
  [current_block |-> NullBlock, next_block |-> nb,
   pending_txs |-> NullSet, blocks_to_common_ancestor |-> <<>>,
   next |-> "SYNCHRONISING"]

\* a variant that returns to the reload of the state
ResetFieldsReload(cb, nb, ptx, path) ==
  [current_block |-> NullBlock, next_block |-> NullBlock,
   pending_txs |-> NullSet, blocks_to_common_ancestor |-> <<>>,
   next |-> "RELOAD_STATE"]

\* the transient fields after OnReset, and the state it returns
ResetFields(cb, nb, ptx, path) ==
  [current_block |-> NullBlock, next_block |-> NullBlock,
   pending_txs |-> NullSet, blocks_to_common_ancestor |-> <<>>,
   next |-> "SYNCHRONISING"]

\* the transient fields that hold something
Held(cb, nb, ptx, path) ==
  (IF cb # NullBlock THEN {"current_block"} ELSE {})
    \cup (IF nb # NullBlock THEN {"next_block"} ELSE {})
    \cup (IF ptx # NullSet THEN {"pending_txs"} ELSE {})
    \cup (IF path # <<>> THEN {"blocks_to_common_ancestor"} ELSE {})

\* a variant that notifies whether or not there is a stake oracle
NotifyAlways ==
  IF next_block # NullBlock THEN next_block ELSE current_block

\* the block OnReset hands to the stake oracle, if any
ResetNotification ==
  IF ~stake THEN NullBlock
  ELSE IF next_block # NullBlock THEN next_block
  ELSE current_block

OnReset ==
  /\ state = "RESET"
  /\ LET r == ResetFields(current_block, next_block, pending_txs,
                          blocks_to_common_ancestor)
     IN  /\ current_block' = r.current_block
         /\ next_block' = r.next_block
         /\ pending_txs' = r.pending_txs
         /\ blocks_to_common_ancestor' = r.blocks_to_common_ancestor
         /\ Goto(r.next)
  /\ next_block_time' = BlockPeriodTicks
  /\ obs' = [Did("OnReset") EXCEPT
               !.notified = ResetNotification,
               !.cleared = Held(current_block, next_block, pending_txs,
                                blocks_to_common_ancestor)]
  /\ UNCHANGED <<last_executed_block, timerVars, configVars, chainVars,
                 storeVars, stored_txs, dag_nodes, engineVars, waited, high,
                 rejected, deliveries, validated>>

\* the path OnSynchronising works on: the cached one, or a fresh lookup
LookupPath(cb) ==
  IF blocks_to_common_ancestor = <<>>
  THEN GetPathToCommonAncestor(chain, cb.hash, last_processed_block,
                               COMMON_PATH_TO_ANCESTOR_LENGTH_LIMIT)
  ELSE [success |-> TRUE, path |-> blocks_to_common_ancestor]

\* a variant that leaves the common parent on the path
PopNothing(path) == path

\* the cache after the common parent was popped
PopPath(path) ==
  LET popped == SubSeq(path, 1, Len(path) - 1)
  IN  IF Len(popped) < THRESHOLD_FOR_FAST_SYNCING THEN <<>> ELSE popped

\* a variant that jumps to the tip of the path
NextAtTip(path) == path[1]

\* the last block of the path is the common parent, the one before it the
\* next block to execute
CommonParent(path) == path[Len(path)]

NextOnPath(path) == path[Len(path) - 1]

\* a variant that stays on the block
SameBlock(c, b) == b

\* the previous block of b, looked up in the chain
PreviousBlock(c, b) == GetBlock(c, b.previous_hash)

\* the handler, given the answers of its collaborators
SynchronisingGiven(revert_ok, genesis_revert_ok, dag_revert_ok) ==
  /\ state = "SYNCHRONISING"
  /\ rejected' = {}
  /\ UNCHANGED <<deliveries, validated>>
  /\
       LET cb == IF current_block = NullBlock THEN GetBlock(chain, heaviest)
                 ELSE current_block
           keep == /\ UNCHANGED <<next_block, pending_txs, last_executed_block,
                                  timerVars, next_block_time, configVars,
                                  chainVars, stored_txs, dag_nodes,
                                  execution_state,
                                  executing_txs, waited>>
       IN
       /\ (dag \/ dag_revert_ok)
       /\ keep
       /\ current_block' =
            IF cb = NullBlock \/ cb.hash = EmptyDigest THEN cb
            ELSE IF GENESIS_DIGEST = last_processed_block
            THEN IF GENESIS_DIGEST = cb.previous_hash
                    \/ ~HasBlock(chain, cb.previous_hash)
                 THEN cb ELSE PreviousBlock(chain, cb)
            ELSE IF cb.hash = last_processed_block THEN cb
            ELSE LET lk == LookupPath(cb)
                     n  == Len(lk.path)
                 IN  IF lk.success /\ n >= 2
                        /\ HashExists(commits,
                                      CommonParent(lk.path).merkle_hash,
                                      CommonParent(lk.path).block_number)
                        /\ revert_ok /\ dag_revert_ok
                     THEN NextOnPath(lk.path) ELSE cb
       /\ IF cb = NullBlock \/ cb.hash = EmptyDigest
          THEN \* invalid heaviest block
               /\ obs' = Failed("OnSynchronising")
               /\ Goto("RESET")
               /\ UNCHANGED <<blocks_to_common_ancestor, storeVars,
                              last_processed_block, high>>
          ELSE IF GENESIS_DIGEST = last_processed_block
          THEN \* start up: walk back to the block that follows genesis
               /\ UNCHANGED <<blocks_to_common_ancestor, storeVars,
                              last_processed_block, high>>
               /\ IF GENESIS_DIGEST = cb.previous_hash
                  THEN /\ obs' = Did("OnSynchronising")
                       /\ Goto("PRE_EXEC_BLOCK_VALIDATION")
                  ELSE IF ~HasBlock(chain, cb.previous_hash)
                  THEN /\ obs' = Failed("OnSynchronising")
                       /\ Goto("RESET")
                  ELSE /\ obs' = Did("OnSynchronising")
                       /\ Goto("SYNCHRONISING")
          ELSE IF cb.hash = last_processed_block
          THEN /\ obs' = Did("OnSynchronising")
               /\ Goto("SYNCHRONISED")
               /\ UNCHANGED <<blocks_to_common_ancestor, storeVars,
                              last_processed_block, high>>
          ELSE \* we have processed at least one block
               LET lk == LookupPath(cb)
                   n  == Len(lk.path)
               IN
               IF ~lk.success
               THEN /\ obs' = Failed("OnSynchronising")
                    /\ Goto("RESET")
                    /\ UNCHANGED <<blocks_to_common_ancestor, storeVars,
                                   last_processed_block, high>>
               ELSE IF n < 2
               THEN \* assert(blocks_to_common_ancestor_.size() >= 2)
                    /\ Abort("OnSynchronising")
                    /\ blocks_to_common_ancestor' = lk.path
                    /\ UNCHANGED <<storeVars, last_processed_block, high>>
               ELSE
               LET common_parent == CommonParent(lk.path)
                   gv == RevertToHash(current_hash, commits,
                                      GENESIS_MERKLE_ROOT, 0, genesis_revert_ok)
                   rv == RevertToHash(current_hash, commits,
                                      common_parent.merkle_hash,
                                      common_parent.block_number, revert_ok)
               IN
               IF ~HashExists(commits, common_parent.merkle_hash,
                              common_parent.block_number)
               THEN \* revert back to genesis
                    /\ last_processed_block' = GENESIS_DIGEST
                    /\ current_hash' = gv.current_hash
                    /\ commits' = gv.commits
                    /\ high' = HighAfter(high,
                                 Reverted(gv, GENESIS_MERKLE_ROOT, 0))
                    /\ blocks_to_common_ancestor' = lk.path
                    /\ obs' = [Failed("OnSynchronising") EXCEPT
                                 !.reverts =
                                    Reverted(gv, GENESIS_MERKLE_ROOT, 0)]
                    /\ Goto("RESET")
               ELSE
               /\ current_hash' = rv.current_hash
               /\ commits' = rv.commits
               /\ high' = HighAfter(high,
                            Reverted(rv, common_parent.merkle_hash,
                                     common_parent.block_number))
               /\ UNCHANGED last_processed_block
               /\ IF ~rv.success \/ ~dag_revert_ok
                  THEN /\ blocks_to_common_ancestor' = lk.path
                       /\ obs' = [Failed("OnSynchronising") EXCEPT
                                    !.reverts =
                                       Reverted(rv, common_parent.merkle_hash,
                                                common_parent.block_number)]
                       /\ Goto("RESET")
                  ELSE /\ blocks_to_common_ancestor' = PopPath(lk.path)
                       /\ obs' = [Did("OnSynchronising") EXCEPT
                                    !.reverts =
                                       Reverted(rv, common_parent.merkle_hash,
                                                common_parent.block_number)]
                       /\ Goto("PRE_EXEC_BLOCK_VALIDATION")

OnSynchronising ==
  \E revert_ok \in BOOLEAN,
     genesis_revert_ok \in BOOLEAN,
     dag_revert_ok \in BOOLEAN :
    SynchronisingGiven(revert_ok, genesis_revert_ok, dag_revert_ok)

\* the digest a block has once its proof closed it (Block::UpdateDigest): a
\* function of the body
MintBase == 1000

TxCode(txs) == IF txs = {} THEN 0 ELSE Max(txs)

\* a variant that leaves the digest as it was
KeepDigest(b) == b.hash

UpdateDigest(b) == MintBase + 10 * b.previous_hash + TxCode(b.txs)

\* how many blocks minted by this node end in the block with digest h
RECURSIVE MintDepth(_)
MintDepth(h) == IF h < MintBase THEN 0
                ELSE 1 + MintDepth((h - MintBase) \div 10)

\* the Merkle root of a block that has not been executed yet
UnsetRoot == {-1}

\* the weights the stake oracle may answer with
Weights == {1, 2}

\* a variant that gives the new block the number of the block below it
NewBlockSameNumber(cb, w) ==
  [hash |-> EmptyDigest, previous_hash |-> cb.hash,
   block_number |-> cb.block_number, merkle_hash |-> UnsetRoot,
   txs |-> {}, miner |-> "self", weight |-> w, log2_num_lanes |-> 0,
   num_slices |-> 1, dag_epoch |-> {},
   previous_hash_size |-> DIGEST_LENGTH_BYTES]

\* a variant that makes no new block
NoNewBlock(cb, w) == NullBlock

\* the block OnSynchronised starts to mint on top of cb
NewBlock(cb, w) ==
  [hash |-> EmptyDigest, previous_hash |-> cb.hash,
   block_number |-> cb.block_number + 1, merkle_hash |-> UnsetRoot,
   txs |-> {}, miner |-> "self", weight |-> w, log2_num_lanes |-> 0,
   num_slices |-> 1, dag_epoch |-> {},
   previous_hash_size |-> DIGEST_LENGTH_BYTES]

\* a variant that keeps the block the new one is built on
KeepCurrent(cb) == cb

\* discard the current block (we are making a new one)
Discard(cb) == NullBlock

\* a variant in which the clock is always past next_block_time_
BlockTimeAlways == TRUE

\* the clock reached next_block_time_
BlockTimeReached == next_block_time = 0

\* the handler, given the answers of its collaborators
SynchronisedGiven(should_generate, w) ==
  /\ state = "SYNCHRONISED"
  /\ UNCHANGED <<pending_txs, blocks_to_common_ancestor, last_executed_block,
                 timerVars, setupVars, chainVars, storeVars, stored_txs,
                 dag_nodes,
                 engineVars, waited, high, rejected, deliveries, validated>>
  /\ trigger' = IF trigger \in {"none", "off"} THEN trigger ELSE "seen"
  /\ UNCHANGED resets
  /\
       /\ (stake \/ (should_generate /\ w = 1))
       /\ IF heaviest # current_block.hash
          THEN /\ obs' = Did("OnSynchronised")
               /\ Goto("RESET")
               /\ UNCHANGED <<current_block, next_block, next_block_time>>
          ELSE IF /\ mining /\ mining_enabled /\ BlockTimeReached
                  /\ MintDepth(current_block.hash) < MaxMintDepth
          THEN IF stake /\ ~should_generate
               THEN /\ obs' = Did("OnSynchronised")
                    /\ Goto("SYNCHRONISED")
                    /\ UNCHANGED <<current_block, next_block, next_block_time>>
               ELSE /\ next_block' = NewBlock(current_block, w)
                    /\ current_block' = Discard(current_block)
                    /\ obs' = Did("OnSynchronised")
                    /\ Goto("NEW_SYNERGETIC_EXECUTION")
                    /\ UNCHANGED next_block_time
          ELSE /\ obs' = Did("OnSynchronised")
               /\ Goto("SYNCHRONISED")
               /\ UNCHANGED <<current_block, next_block>>
               /\ next_block_time' =
                    IF "SYNCHRONISING" = previous_state \/ next_block_time = 0
                    THEN next_block_time ELSE next_block_time - 1

OnSynchronised ==
  \E should_generate \in BOOLEAN, w \in Weights :
    SynchronisedGiven(should_generate, w)

\* the lanes and slices the coordinator was constructed with
num_lanes == 1

num_slices == 1

\* 1u << log2_num_lanes
LaneCount(log2) == 2 ^ log2

\* the checks of OnPreExecBlockValidation, in order: the reason of the first
\* one that fails, or "ok"
PreExecCheck(cb, valid_miner, w, prepare_ok) ==
  LET is_genesis == cb.previous_hash = GENESIS_DIGEST
      previous   == GetBlock(chain, cb.previous_hash)
  IN  IF ~is_genesis /\ previous = NullBlock
      THEN "No previous block in chain"
      ELSE IF ~is_genesis /\ stake /\ ~valid_miner
      THEN "Block signed by miner deemed invalid by the staking mechanism"
      ELSE IF ~is_genesis /\ stake /\ cb.weight # w
      THEN "Incorrect stake weight found for block"
      ELSE IF ~is_genesis /\ previous.block_number + 1 # cb.block_number
      THEN "Block number mismatch"
      ELSE IF ~is_genesis /\ num_lanes # LaneCount(cb.log2_num_lanes)
      THEN "Lane count mismatch"
      ELSE IF ~is_genesis /\ num_slices # cb.num_slices
      THEN "Slice count mismatch"
      ELSE IF DIGEST_LENGTH_BYTES # cb.previous_hash_size
      THEN "Previous block hash size mismatch"
      ELSE IF ~is_genesis /\ synergetic_exec_mgr /\ ~prepare_ok
      THEN "Block certifies work that possibly is malicious"
      ELSE "ok"

\* the handler, given the answers of its collaborators
PreExecBlockValidationGiven(valid_miner, w, prepare_ok) ==
  /\ state = "PRE_EXEC_BLOCK_VALIDATION"
  /\ UNCHANGED <<current_block, next_block, pending_txs,
                 blocks_to_common_ancestor, last_executed_block, timerVars,
                 next_block_time, configVars, storeVars, stored_txs, dag_nodes,
                 engineVars, waited, high, rejected, deliveries, validated>>
  /\
       /\ (stake \/ (valid_miner /\ w = 1))
       /\ (synergetic_exec_mgr \/ prepare_ok)
       /\ LET check == PreExecCheck(current_block, valid_miner, w, prepare_ok)
              rm    == RemoveBlock(chain, heaviest, current_block.hash)
          IN  IF check # "ok"
              THEN /\ chain' = rm.chain
                   /\ heaviest' = rm.heaviest
                   /\ obs' = [Failed("OnPreExecBlockValidation") EXCEPT
                                !.removed = {current_block.hash}]
                   /\ Goto("RESET")
              ELSE /\ UNCHANGED chainVars
                   /\ obs' = Did("OnPreExecBlockValidation")
                   /\ Goto("WAIT_FOR_TRANSACTIONS")

OnPreExecBlockValidation ==
  \E valid_miner \in BOOLEAN, w \in Weights, prepare_ok \in BOOLEAN :
    PreExecBlockValidationGiven(valid_miner, w, prepare_ok)

\* the handler, given the answers of its collaborators
SynergeticExecutionGiven(prepare_ok, validate_ok) ==
  /\ state = "SYNERGETIC_EXECUTION"
  /\ UNCHANGED <<current_block, next_block, pending_txs,
                 blocks_to_common_ancestor, last_executed_block, timerVars,
                 next_block_time, configVars, storeVars, stored_txs, dag_nodes,
                 engineVars, waited, high, rejected, deliveries, validated>>
  /\
       LET is_genesis == current_block.previous_hash = GENESIS_DIGEST
           used       == ~is_genesis /\ synergetic_exec_mgr
           rm         == RemoveBlock(chain, heaviest, current_block.hash)
       IN
       /\ (used \/ (prepare_ok /\ validate_ok))
       /\ (prepare_ok \/ validate_ok)
       /\ IF used /\ ~HasBlock(chain, current_block.previous_hash)
          THEN /\ UNCHANGED chainVars
               /\ obs' = Failed("OnSynergeticExecution")
               /\ Goto("RESET")
          ELSE IF used /\ ~prepare_ok
          THEN /\ UNCHANGED chainVars
               /\ obs' = Failed("OnSynergeticExecution")
               /\ Goto("RESET")
          ELSE IF used /\ ~validate_ok
          THEN /\ chain' = rm.chain
               /\ heaviest' = rm.heaviest
               /\ obs' = [Failed("OnSynergeticExecution") EXCEPT
                            !.removed = {current_block.hash}]
               /\ Goto("RESET")
          ELSE /\ UNCHANGED chainVars
               /\ obs' = Did("OnSynergeticExecution")
               /\ Goto("SCHEDULE_BLOCK_EXECUTION")

OnSynergeticExecution ==
  \E prepare_ok \in BOOLEAN, validate_ok \in BOOLEAN :
    SynergeticExecutionGiven(prepare_ok, validate_ok)

\* DeadlineTimer: a timer holds the time left until its deadline
HasExpired(timer) == timer = 0

\* a variant in which no time passes between two polls
ElapseNothing(timer, d) == timer

\* the time left on a timer after a polling delay of d
Elapse(timer, d) == IF timer > d THEN timer - d ELSE 0

\* the longest stay the model measures
WaitedCap ==
  WAIT_BEFORE_ASKING_FOR_MISSING_TX_INTERVAL + WAIT_FOR_TX_TIMEOUT_INTERVAL
    + 2 * TxWaitDelay

\* the digests of all slices of a block
BlockDigests(b) == b.txs

\* a variant that marks no transaction
MarkNothing(b) == {}

\* UpdateTxStatus: the digests marked EXECUTED, one Update for each
\* transaction of each slice
UpdateTxStatus(b) == BlockDigests(b)

\* a variant that erases no digest from the set
MissingAll(p) == p

\* the digests of p that the storage layer does not hold
StillMissing(p) == {d \in p : d \notin stored_txs}

\* a variant in which the DAG never satisfies an epoch
SatisfyNothing(nodes, epoch) == FALSE

\* a variant that takes every run for a re-entry
ReenteredAlways(current, previous) == TRUE

\* the handler ran in this state the last time too
Reentered(current, previous) == previous = current

\* DAG::SatisfyEpoch: all nodes of the epoch are in the DAG
SatisfyEpoch(nodes, epoch) == epoch \subseteq nodes

\* The two timers are read only during a stay in WAIT_FOR_TRANSACTIONS, each
\* after the Restart that arms it in that stay: a timer that cannot be read
\* before its next Restart is kept at 0.
OnWaitForTransactions ==
  /\ state = "WAIT_FOR_TRANSACTIONS"
  /\ UNCHANGED <<current_block, next_block, blocks_to_common_ancestor,
                 last_executed_block, next_block_time, configVars, storeVars,
                 stored_txs, dag_nodes, engineVars, high, rejected,
                 deliveries, validated>>
  /\ LET dag_is_ready ==
           IF dag THEN SatisfyEpoch(dag_nodes, current_block.dag_epoch)
           ELSE TRUE
     IN
       LET reentry == Reentered(state, previous_state)
           timeout == reentry /\ have_asked_for_missing_txs
                      /\ HasExpired(wait_for_tx_timeout)
           ask     == reentry /\ ~have_asked_for_missing_txs
                      /\ HasExpired(wait_before_asking_for_missing_tx)
           asked   == IF reentry THEN (ask \/ have_asked_for_missing_txs)
                      ELSE FALSE
           call    == IF ask THEN pending_txs ELSE NullSet
           t_ask   == IF reentry THEN wait_before_asking_for_missing_tx
                      ELSE WAIT_BEFORE_ASKING_FOR_MISSING_TX_INTERVAL
           t_tmo   == IF ask THEN WAIT_FOR_TX_TIMEOUT_INTERVAL
                      ELSE wait_for_tx_timeout
           cached  == IF pending_txs = NullSet
                      THEN BlockDigests(current_block) ELSE pending_txs
           pending == StillMissing(cached)
           since   == IF reentry THEN waited ELSE 0
           rm      == RemoveBlock(chain, heaviest, current_block.hash)
       IN
       /\ IF timeout
          THEN \* assume the block was invalid and discard it
               /\ chain' = rm.chain
               /\ heaviest' = rm.heaviest
               /\ UNCHANGED <<pending_txs, have_asked_for_missing_txs>>
               /\ wait_before_asking_for_missing_tx' = 0
               /\ wait_for_tx_timeout' = 0
               /\ waited' = 0
               /\ obs' = [Failed("OnWaitForTransactions") EXCEPT
                            !.removed = {current_block.hash}]
               /\ Goto("RESET")
          ELSE /\ UNCHANGED chainVars
               /\ have_asked_for_missing_txs' = asked
               /\ IF pending = {} /\ dag_is_ready
                  THEN /\ pending_txs' = NullSet
                       /\ wait_before_asking_for_missing_tx' = 0
                       /\ wait_for_tx_timeout' = 0
                       /\ waited' = 0
                       /\ obs' = [Did("OnWaitForTransactions") EXCEPT
                                    !.asked = call]
                       /\ Goto("SYNERGETIC_EXECUTION")
                  ELSE /\ pending_txs' = pending
                       /\ wait_before_asking_for_missing_tx' =
                            IF asked THEN 0 ELSE Elapse(t_ask, TxWaitDelay)
                       /\ wait_for_tx_timeout' =
                            IF asked THEN Elapse(t_tmo, TxWaitDelay) ELSE 0
                       /\ waited' = IF since + TxWaitDelay > WaitedCap
                                    THEN WaitedCap ELSE since + TxWaitDelay
                       /\ obs' = [Did("OnWaitForTransactions") EXCEPT
                                    !.asked = call]
                       /\ Goto("WAIT_FOR_TRANSACTIONS")

\* ------------------------------------------------------------ execution
\* a variant that takes every answer of the engine for a success
ScheduleAnything(status) == TRUE

\* ScheduleBlock: success iff the engine answers SCHEDULED
ScheduleBlock(status) == status = "SCHEDULED"

\* ScheduleCurrentBlock / ScheduleNextBlock: an empty pointer is not scheduled
ScheduleIfPresent(block, status) ==
  IF block # NullBlock THEN ScheduleBlock(status) ELSE FALSE

\* ExecutionManager::Execute(body): a scheduled block becomes the last
\* processed one and the engine turns ACTIVE
Execute(block, status) ==
  IF block # NullBlock /\ status = "SCHEDULED"
  THEN /\ execution_state' = "ACTIVE"
       /\ last_processed_block' = block.hash
       /\ executing_txs' = block.txs
  ELSE UNCHANGED engineVars

\* the engine answers SCHEDULED only when it is not busy
MayAnswer(status) == status = "SCHEDULED" => execution_state # "ACTIVE"

\* a variant without the TRANSACTIONS_UNAVAILABLE case
QueryExecutorStatusNoStall(execution_state_) ==
  CASE execution_state_ = "IDLE" -> "IDLE"
    [] execution_state_ = "ACTIVE" -> "RUNNING"
    [] OTHER -> "ERROR"

QueryExecutorStatus(execution_state_) ==
  CASE execution_state_ = "IDLE" -> "IDLE"
    [] execution_state_ = "ACTIVE" -> "RUNNING"
    [] execution_state_ = "TRANSACTIONS_UNAVAILABLE" -> "STALLED"
    [] execution_state_ = "EXECUTION_ABORTED" -> "ERROR"
    [] execution_state_ = "EXECUTION_FAILED" -> "ERROR"
    [] OTHER -> "ERROR"

\* the handler, given the answers of its collaborators
ScheduleBlockExecutionGiven(status) ==
  /\ state = "SCHEDULE_BLOCK_EXECUTION"
  /\ UNCHANGED <<current_block, next_block, pending_txs,
                 blocks_to_common_ancestor, last_executed_block, timerVars,
                 next_block_time, configVars, chainVars, storeVars,
                 stored_txs, dag_nodes, waited, high, rejected, deliveries,
                 validated>>
  /\
       /\ MayAnswer(status)
       /\ Execute(current_block, status)
       /\ IF ScheduleIfPresent(current_block, status)
          THEN /\ obs' = Did("OnScheduleBlockExecution")
               /\ Goto("WAIT_FOR_EXECUTION")
          ELSE /\ obs' = Failed("OnScheduleBlockExecution")
               /\ Goto("RESET")

OnScheduleBlockExecution ==
  \E status \in ScheduleStatus :
    ScheduleBlockExecutionGiven(status)

OnWaitForExecution ==
  /\ state = "WAIT_FOR_EXECUTION"
  /\ UNCHANGED <<current_block, next_block, pending_txs,
                 blocks_to_common_ancestor, last_executed_block, timerVars,
                 next_block_time, configVars, chainVars, storeVars,
                 stored_txs, dag_nodes, engineVars, waited, high, rejected,
                 deliveries, validated>>
  /\ LET status == QueryExecutorStatus(execution_state)
     IN  IF status = "IDLE"
         THEN /\ obs' = Did("OnWaitForExecution")
              /\ Goto("POST_EXEC_BLOCK_VALIDATION")
         ELSE IF status = "RUNNING"
         THEN /\ obs' = Did("OnWaitForExecution")
              /\ Goto("WAIT_FOR_EXECUTION")
         ELSE /\ obs' = Failed("OnWaitForExecution")
              /\ Goto("RESET")

\* the Merkle check of OnPostExecBlockValidation: the block is invalid when it
\* is not a genesis block and the state root differs from the one it declares
InvalidBlock(cb, state_hash) ==
  GENESIS_DIGEST # cb.previous_hash /\ state_hash # cb.merkle_hash

\* what dag_->RevertToEpoch(...) at line 984 can do: with a DAG it answers
\* true or false; without one the call goes through a null pointer, which
\* faults or returns either answer
DagRevertOutcomes == IF dag THEN {"true", "false"}
                     ELSE {"fault", "true", "false"}

\* a variant that leaves the invalid block in the chain
PurgeNothing(c, hv, cb) == [chain |-> c, heaviest |-> hv]

\* finally mark the block as invalid and purge it from the chain
PurgeInvalid(c, hv, cb) == RemoveBlock(c, hv, cb.hash)

\* the handler, given the answers of its collaborators; dag_answer is what
\* a DAG would answer at line 984, and what the call does without a DAG is
\* no answer of any collaborator: it stays a choice inside the step
PostExecBlockValidationGiven(dag_answer, revert_ok, genesis_revert_ok) ==
  /\ state = "POST_EXEC_BLOCK_VALIDATION"
  /\ UNCHANGED <<next_block, pending_txs, blocks_to_common_ancestor,
                 timerVars, next_block_time, configVars, stored_txs, dag_nodes,
                 execution_state, executing_txs, waited, current_block>>
  /\ (~dag => dag_answer = "true")
  /\ \E dag_revert \in {o \in DagRevertOutcomes : dag => o = dag_answer} :
       LET cb == current_block
           previous_block == GetBlock(chain, cb.previous_hash)
           rm == PurgeInvalid(chain, heaviest, cb)
       IN
       IF ~InvalidBlock(cb, current_hash)
       THEN \* commit this state and signal the last executed block
            /\ dag_revert = "true" /\ revert_ok /\ genesis_revert_ok
            /\ commits' = Commit(current_hash, commits, cb.block_number)
            /\ UNCHANGED <<current_hash, chainVars, last_processed_block,
                           rejected, deliveries>>
            /\ validated' = validated \cup {cb.hash}
            /\ last_executed_block' = cb.hash
            /\ high' = cb.block_number
            /\ obs' = [Did("OnPostExecBlockValidation") EXCEPT
                         !.commit = cb, !.marked = UpdateTxStatus(cb)]
            /\ Goto("RESET")
       ELSE IF previous_block # NullBlock /\ dag_revert = "fault"
       THEN /\ revert_ok /\ genesis_revert_ok
            /\ Abort("OnPostExecBlockValidation")
            /\ UNCHANGED <<storeVars, chainVars, last_processed_block,
                           last_executed_block, high, rejected, deliveries,
                           validated>>
       ELSE
       LET rv == IF previous_block # NullBlock
                 THEN RevertToHash(current_hash, commits,
                                   previous_block.merkle_hash,
                                   previous_block.block_number, revert_ok)
                 ELSE [success |-> FALSE, current_hash |-> current_hash,
                       commits |-> commits]
           revert_successful ==
             previous_block # NullBlock /\ dag_revert = "true"
           gv == RevertToHash(rv.current_hash, rv.commits,
                              GENESIS_MERKLE_ROOT, 0, genesis_revert_ok)
           reverts ==
             (IF previous_block # NullBlock
              THEN Reverted(rv, previous_block.merkle_hash,
                            previous_block.block_number) ELSE <<>>)
             \o (IF revert_successful THEN <<>>
                 ELSE Reverted(gv, GENESIS_MERKLE_ROOT, 0))
       IN
       /\ (previous_block = NullBlock => (revert_ok /\ dag_revert = "true"))
       /\ (revert_successful => genesis_revert_ok)
       /\ last_processed_block' =
            IF ~revert_successful THEN GENESIS_DIGEST
            ELSE IF rv.success THEN previous_block.hash
            ELSE last_processed_block
       /\ current_hash' = IF revert_successful THEN rv.current_hash
                          ELSE gv.current_hash
       /\ commits' = IF revert_successful THEN rv.commits ELSE gv.commits
       /\ chain' = rm.chain
       /\ heaviest' = rm.heaviest
       /\ UNCHANGED last_executed_block
       /\ high' = HighAfter(high, reverts)
       /\ rejected' = rejected \cup {cb.hash}
       /\ UNCHANGED <<deliveries, validated>>
       /\ obs' = [Failed("OnPostExecBlockValidation") EXCEPT
                    !.reverts = reverts, !.removed = {cb.hash}]
       /\ Goto("RESET")

OnPostExecBlockValidation ==
  \E dag_answer \in {"true", "false"},
     revert_ok \in BOOLEAN,
     genesis_revert_ok \in BOOLEAN :
    PostExecBlockValidationGiven(dag_answer, revert_ok, genesis_revert_ok)

\* ------------------------------------------------------------ minting
\* what PrepareWorkQueue(*next_block_, *previous_block) at line 1066 can do:
\* with the previous block present it succeeds or fails; without it the call
\* goes through a null pointer, which faults or returns either answer
PrepareOutcomes(previous_block) ==
  IF previous_block # NullBlock THEN {"ok", "fail"}
  ELSE {"fault", "ok", "fail"}

\* the handler, given the answers of its collaborators; prepare_answer is
\* what PrepareWorkQueue answers when it is handed a block, and what the
\* call does at line 1066 without one stays a choice inside the step
NewSynergeticExecutionGiven(prepare_answer, validate_ok) ==
  /\ state = "NEW_SYNERGETIC_EXECUTION"
  /\ UNCHANGED <<current_block, next_block, pending_txs,
                 blocks_to_common_ancestor, last_executed_block, timerVars,
                 next_block_time, configVars, chainVars, storeVars,
                 stored_txs, dag_nodes, engineVars, waited, high, rejected,
                 deliveries, validated>>
  /\ LET used == synergetic_exec_mgr /\ dag
         previous_block == GetBlock(chain, next_block.previous_hash)
     IN  \E prepare \in {o \in PrepareOutcomes(previous_block) :
                            previous_block # NullBlock => o = prepare_answer} :
           /\ (previous_block = NullBlock => prepare_answer = "ok")
           /\ (used \/ (prepare = "ok" /\ validate_ok))
           /\ (prepare = "ok" \/ validate_ok)
           /\ IF used /\ prepare = "fault"
              THEN Abort("OnNewSynergeticExecution")
              ELSE IF used /\ (prepare = "fail" \/ ~validate_ok)
              THEN /\ obs' = Failed("OnNewSynergeticExecution")
                   /\ Goto("RESET")
              ELSE /\ obs' = Did("OnNewSynergeticExecution")
                   /\ Goto("PACK_NEW_BLOCK")

OnNewSynergeticExecution ==
  \E prepare_answer \in {"ok", "fail"}, validate_ok \in BOOLEAN :
    NewSynergeticExecutionGiven(prepare_answer, validate_ok)

\* the transaction sets the packer may fill the block with; "throw" stands
\* for GenerateBlock raising an exception
PackChoices ==
  {{}} \cup {{d} : d \in stored_txs \ BlockDigests(MainBlock(1))}

\* the handler, given whether GenerateBlock threw and, if it did not, the
\* transactions it packed
PackNewBlockGiven(thrown, txs) ==
  /\ state = "PACK_NEW_BLOCK"
  /\ UNCHANGED <<current_block, pending_txs, blocks_to_common_ancestor,
                 last_executed_block, timerVars, configVars, chainVars,
                 storeVars, stored_txs, dag_nodes, engineVars, waited, high,
                 rejected,
                 deliveries, validated>>
  /\ \/ /\ ~thrown
        /\ next_block' = [next_block EXCEPT !.txs = txs]
        /\ next_block_time' = BlockPeriodTicks
        /\ obs' = Did("OnPackNewBlock")
        /\ Goto("EXECUTE_NEW_BLOCK")
     \/ /\ thrown /\ txs = {}
        /\ UNCHANGED <<next_block, next_block_time>>
        /\ obs' = Failed("OnPackNewBlock")
        /\ Goto("RESET")

OnPackNewBlock ==
  \E thrown \in BOOLEAN, txs \in PackChoices : PackNewBlockGiven(thrown, txs)

\* the handler, given the answers of its collaborators
ExecuteNewBlockGiven(status) ==
  /\ state = "EXECUTE_NEW_BLOCK"
  /\ UNCHANGED <<current_block, next_block, pending_txs,
                 blocks_to_common_ancestor, last_executed_block, timerVars,
                 next_block_time, configVars, chainVars, storeVars,
                 stored_txs, dag_nodes, waited, high, rejected, deliveries,
                 validated>>
  /\
       /\ MayAnswer(status)
       /\ Execute(next_block, status)
       /\ IF ScheduleIfPresent(next_block, status)
          THEN /\ obs' = Did("OnExecuteNewBlock")
               /\ Goto("WAIT_FOR_NEW_BLOCK_EXECUTION")
          ELSE /\ obs' = Failed("OnExecuteNewBlock")
               /\ Goto("RESET")

OnExecuteNewBlock ==
  \E status \in ScheduleStatus :
    ExecuteNewBlockGiven(status)

OnWaitForNewBlockExecution ==
  /\ state = "WAIT_FOR_NEW_BLOCK_EXECUTION"
  /\ UNCHANGED <<current_block, pending_txs, blocks_to_common_ancestor,
                 last_executed_block, timerVars, next_block_time, configVars,
                 chainVars, current_hash, stored_txs, dag_nodes, engineVars,
                 waited,
                 rejected, deliveries, validated>>
  /\ LET status == QueryExecutorStatus(execution_state)
         nb == [next_block EXCEPT !.merkle_hash = current_hash]
     IN  IF status = "IDLE"
         THEN /\ next_block' = nb
              /\ commits' = Commit(current_hash, commits, nb.block_number)
              /\ high' = nb.block_number
              /\ obs' = [Did("OnWaitForNewBlockExecution") EXCEPT
                           !.commit = nb]
              /\ Goto("PROOF_SEARCH")
         ELSE IF status = "RUNNING"
         THEN /\ UNCHANGED <<next_block, commits, high>>
              /\ obs' = Did("OnWaitForNewBlockExecution")
              /\ Goto("WAIT_FOR_NEW_BLOCK_EXECUTION")
         ELSE /\ UNCHANGED <<next_block, commits, high>>
              /\ obs' = Failed("OnWaitForNewBlockExecution")
              /\ Goto("RESET")

\* the handler, given the answers of its collaborators
ProofSearchGiven(found) ==
  /\ state = "PROOF_SEARCH"
  /\ UNCHANGED <<current_block, pending_txs, blocks_to_common_ancestor,
                 last_executed_block, timerVars, next_block_time, configVars,
                 chainVars, storeVars, stored_txs, dag_nodes, execution_state,
                 executing_txs, waited, high, rejected, deliveries, validated>>
  /\
       IF found
       THEN /\ next_block' =
                 [next_block EXCEPT !.hash = UpdateDigest(next_block)]
            /\ last_processed_block' = UpdateDigest(next_block)
            /\ obs' = Did("OnProofSearch")
            /\ Goto("TRANSMIT_BLOCK")
       ELSE /\ UNCHANGED <<next_block, last_processed_block>>
            /\ obs' = Did("OnProofSearch")
            /\ Goto("PROOF_SEARCH")

OnProofSearch ==
  \E found \in BOOLEAN :
    ProofSearchGiven(found)

\* the answers MainChain::AddBlock may give for block b; "throw" stands for
\* an exception
AddBlockAnswers(b) ==
  {"INVALID", "throw"}
    \cup (IF HasBlock(chain, b.hash) THEN {"DUPLICATE"}
          ELSE IF HasBlock(chain, b.previous_hash) THEN {"ADDED"}
          ELSE {"LOOSE"})

\* a variant that takes every answer but INVALID for an acceptance
AcceptedUnlessInvalid(answer) == answer # "INVALID"

\* the block was taken by the chain: its transactions are marked executed,
\* it becomes the last executed block and goes to the block sink
\* a variant that takes every answer of addBlock as an acceptance
AcceptedAlways(answer) == TRUE

Accepted(answer) == answer = "ADDED"

\* the handler, given the answers of its collaborators
TransmitBlockGiven(answer) ==
  /\ state = "TRANSMIT_BLOCK"
  /\ UNCHANGED <<current_block, next_block, pending_txs,
                 blocks_to_common_ancestor, timerVars, next_block_time,
                 configVars, storeVars, stored_txs, dag_nodes, engineVars,
                 waited, high, rejected, deliveries, validated>>
  /\ answer \in AddBlockAnswers(next_block)
  /\ LET ins == InsertBlock(chain, heaviest, next_block)
       IN  /\ chain' = IF answer = "ADDED" THEN ins.chain ELSE chain
           /\ heaviest' = IF answer = "ADDED" THEN ins.heaviest ELSE heaviest
           /\ last_executed_block' =
                IF Accepted(answer) THEN next_block.hash
                ELSE last_executed_block
           /\ obs' = IF answer = "ADDED"
                     THEN [Did("OnTransmitBlock") EXCEPT
                             !.marked = UpdateTxStatus(next_block),
                             !.sink = next_block]
                     ELSE Failed("OnTransmitBlock")
           /\ Goto("RESET")

OnTransmitBlock ==
  \E answer \in BlockStatus \cup {"throw"} :
    TransmitBlockGiven(answer)

\* ------------------------------------------------------------ environment
\* the engine finishes the block it was given: its transactions take effect
\* on the state, or the execution ends in one of the failure states
EngineRun ==
  /\ state # Aborted
  /\ execution_state = "ACTIVE"
  /\ \E result \in ExecutionState \ {"ACTIVE"} :
       /\ execution_state' = result
       /\ current_hash' = IF result = "IDLE"
                          THEN current_hash \cup executing_txs
                          ELSE current_hash
  /\ executing_txs' = {}
  /\ obs' = NoObs
  /\ UNCHANGED <<smVars, current_block, next_block, pending_txs,
                 blocks_to_common_ancestor, last_executed_block, timerVars,
                 next_block_time, configVars, chainVars, commits, stored_txs,
                 dag_nodes,
                 last_processed_block, waited, high, rejected, deliveries,
                 validated>>

\* a peer delivers a block whose parent the chain holds
PeerAddBlock ==
  /\ state # Aborted
  /\ deliveries < MaxDeliveries
  /\ deliveries' = deliveries + 1
  /\ UNCHANGED validated
  /\ \E b \in network :
       /\ ~HasBlock(chain, b.hash)
       /\ HasBlock(chain, b.previous_hash)
       /\ chain' = InsertBlock(chain, heaviest, b).chain
       /\ heaviest' = InsertBlock(chain, heaviest, b).heaviest
       /\ rejected' = rejected \ {b.hash}
  /\ obs' = NoObs
  /\ UNCHANGED <<smVars, current_block, next_block, pending_txs,
                 blocks_to_common_ancestor, last_executed_block, timerVars,
                 next_block_time, configVars, storeVars, stored_txs, dag_nodes,
                 engineVars, waited, high>>

\* a transaction reaches the storage layer
TxArrive ==
  /\ state # Aborted
  /\ \E d \in Digests \ stored_txs : stored_txs' = stored_txs \cup {d}
  /\ obs' = NoObs
  /\ UNCHANGED <<smVars, current_block, next_block, pending_txs,
                 blocks_to_common_ancestor, last_executed_block, timerVars,
                 next_block_time, configVars, chainVars, storeVars,
                 dag_nodes, engineVars, waited, high, rejected, deliveries,
                 validated>>

\* a DAG node reaches the DAG
DagNodeArrive ==
  /\ state # Aborted
  /\ dag
  /\ \E n \in DagNodes \ dag_nodes : dag_nodes' = dag_nodes \cup {n}
  /\ obs' = NoObs
  /\ UNCHANGED <<smVars, current_block, next_block, pending_txs,
                 blocks_to_common_ancestor, last_executed_block, timerVars,
                 next_block_time, configVars, chainVars, storeVars,
                 stored_txs, engineVars, waited, high, rejected, deliveries,
                 validated>>

\* the owner of the coordinator calls TriggerBlockGeneration(), once in a
\* run and from any thread, whatever the state machine is doing: with mining
\* on the next block time becomes now
KeepBlockTime(on, t) == t

TriggeredBlockTime(on, t) == IF on THEN 0 ELSE t

TriggerBlockGeneration ==
  /\ state # Aborted
  /\ trigger = "none"
  /\ trigger' = IF mining THEN state ELSE "off"
  /\ UNCHANGED resets
  /\ next_block_time' = TriggeredBlockTime(mining, next_block_time)
  /\ obs' = NoObs
  /\ UNCHANGED <<smVars, current_block, next_block, pending_txs,
                 blocks_to_common_ancestor, last_executed_block, timerVars,
                 setupVars, chainVars, storeVars, stored_txs, dag_nodes,
                 engineVars, waited, high, rejected, deliveries, validated>>

\* ------------------------------------------------------------ specification
\* the ways the node may be constructed: the chain it holds and its heaviest
\* block, the height up to which its store holds snapshots of the main line
\* (-1: a fresh store), the optional collaborators, the mining switch and the
\* blocks its peers hold
Boot(c, tip, j, d, s, m, net) ==
  [chain |-> c, heaviest |-> tip.hash, stored |-> j, dag |-> d,
   synergetic |-> s, mining |-> m, network |-> net]

MainLine(k) == {MainBlock(n) : n \in 0..k}

LongLine == {LongBlock(n) : n \in 0..LongHeight}

Boots ==
  {\* a fresh node
   Boot(MainLine(0), MainBlock(0), -1, TRUE, FALSE, TRUE, {MainBlock(1)}),
   Boot(MainLine(0), MainBlock(0), -1, FALSE, TRUE, TRUE, {MainBlock(1)}),
   \* a restarted node whose peers hold a longer fork
   Boot(MainLine(2), MainBlock(2), 2, TRUE, TRUE, FALSE,
        {ForkBlock2, ForkBlock3}),
   Boot(MainLine(2), MainBlock(2), 1, FALSE, FALSE, FALSE,
        {ForkBlock2, ForkBlock3}),
   \* a restarted node whose peers hold invalid blocks
   Boot(MainLine(1), MainBlock(1), 1, FALSE, FALSE, FALSE,
        {WrongRootBlock, WrongNumberBlock}),
   Boot(MainLine(1), MainBlock(1), 1, TRUE, FALSE, FALSE,
        {WrongRootBlock, WrongNumberBlock, MainBlock(2)}),
   \* a restarted node with a long chain
   Boot(LongLine, LongBlock(LongHeight), 1, FALSE, FALSE, FALSE, {})}

\* the state after construction of a node booted in one of the ways of boots,
\* whose storage layer holds the transactions txs and whose DAG the nodes
Start(boots, txs, nodes) ==
  /\ state = "RELOAD_STATE"
  /\ previous_state = "RELOAD_STATE"
  /\ current_block = NullBlock
  /\ next_block = NullBlock
  /\ pending_txs = NullSet
  /\ blocks_to_common_ancestor = <<>>
  /\ last_executed_block = GENESIS_DIGEST
  /\ have_asked_for_missing_txs = FALSE
  /\ wait_before_asking_for_missing_tx = 0
  /\ wait_for_tx_timeout = 0
  /\ next_block_time = 0
  /\ mining_enabled = TRUE
  /\ \E boot \in boots :
       /\ mining = boot.mining
       /\ network = boot.network
       /\ dag = boot.dag
       /\ stake = boot.synergetic
       /\ synergetic_exec_mgr = boot.synergetic
       /\ chain = boot.chain
       /\ heaviest = boot.heaviest
       /\ current_hash = IF boot.stored < 0 THEN GENESIS_MERKLE_ROOT
                         ELSE MainBlock(boot.stored).merkle_hash
       /\ commits = {<<n, MainBlock(n).merkle_hash>> : n \in 0..boot.stored}
  /\ stored_txs = txs
  /\ dag_nodes = nodes
  /\ execution_state = "IDLE"
  /\ last_processed_block = GENESIS_DIGEST
  /\ executing_txs = {}
  /\ obs = NoObs
  /\ waited = 0
  /\ high = -1
  /\ rejected = {}
  /\ deliveries = 0
  /\ validated = {}
  /\ trigger = "none"
  /\ resets = 0

Init == Start(Boots, {1}, {})

Next ==
  \/ OnReloadState
  \/ OnReset
  \/ OnSynchronising
  \/ OnSynchronised
  \/ OnPreExecBlockValidation
  \/ OnWaitForTransactions
  \/ OnSynergeticExecution
  \/ OnScheduleBlockExecution
  \/ OnWaitForExecution
  \/ OnPostExecBlockValidation
  \/ OnNewSynergeticExecution
  \/ OnPackNewBlock
  \/ OnExecuteNewBlock
  \/ OnWaitForNewBlockExecution
  \/ OnProofSearch
  \/ OnTransmitBlock
  \/ EngineRun
  \/ PeerAddBlock
  \/ TxArrive
  \/ DagNodeArrive

Spec == Init /\ [][Next]_vars

\* ------------------------------------------------------------ fork switch
\* A restarted node at the tip of the main line whose peers hold a longer
\* fork from height 1, with every transaction and DAG node at hand.
ForkBoots ==
  {Boot(MainLine(2), MainBlock(2), 2, d, s, FALSE, {ForkBlock2, ForkBlock3}) :
     d \in BOOLEAN, s \in BOOLEAN}

ForkInit == Start(ForkBoots, Digests, DagNodes)

\* no collaborator fails: the step just taken did not end in a failure and the
\* engine is idle or executing
Calm == obs.outcome = "ok" /\ execution_state \in {"IDLE", "ACTIVE"}

\* the steps of the state machine while it follows the chain
ForkStep ==
  \/ OnReloadState /\ Calm'
  \/ OnReset /\ Calm'
  \/ OnSynchronising /\ Calm'
  \/ OnSynchronised /\ Calm'
  \/ OnPreExecBlockValidation /\ Calm'
  \/ OnWaitForTransactions /\ Calm'
  \/ OnSynergeticExecution /\ Calm'
  \/ OnScheduleBlockExecution /\ Calm'
  \/ OnWaitForExecution /\ Calm'
  \/ OnPostExecBlockValidation /\ Calm'

ForkEngine == EngineRun /\ Calm'

ForkNext ==
  \/ ForkStep
  \/ ForkEngine
  \/ PeerAddBlock

\* the reactor keeps running the state machine and the engine's workers keep
\* running the block they were given
ForkSpec ==
  ForkInit /\ [][ForkNext]_vars /\ WF_vars(ForkStep) /\ WF_vars(ForkEngine)

\* ------------------------------------------------------------ main line
\* A node with a fresh store whose chain holds the genesis block and up to
\* LineHeight valid blocks above it, with every transaction and DAG node at
\* hand, and collaborators that report no failure.
LineBoots ==
  {Boot(MainLine(k), MainBlock(k), -1, d, s, m, {}) :
     k \in 0..LineHeight, d \in BOOLEAN, s \in BOOLEAN, m \in BOOLEAN}

LineInit == Start(LineBoots, Digests, DagNodes)

\* the steps of the state machine; the fresh store has no snapshot to reload
LineStep ==
  \/ OnReloadState
  \/ OnReset /\ Calm'
  \/ OnSynchronising /\ Calm'
  \/ OnSynchronised /\ Calm'
  \/ OnPreExecBlockValidation /\ Calm'
  \/ OnWaitForTransactions /\ Calm'
  \/ OnSynergeticExecution /\ Calm'
  \/ OnScheduleBlockExecution /\ Calm'
  \/ OnWaitForExecution /\ Calm'
  \/ OnPostExecBlockValidation /\ Calm'
  \/ OnNewSynergeticExecution /\ Calm'
  \/ OnPackNewBlock /\ Calm'
  \/ OnExecuteNewBlock /\ Calm'
  \/ OnWaitForNewBlockExecution /\ Calm'
  \/ OnProofSearch /\ Calm'
  \/ OnTransmitBlock /\ Calm'

LineNext ==
  \/ LineStep
  \/ ForkEngine

\* the reactor keeps running the state machine and the engine's workers keep
\* running the block they were given
LineSpec ==
  LineInit /\ [][LineNext]_vars /\ WF_vars(LineStep) /\ WF_vars(ForkEngine)

\* ------------------------------------------------------------ trigger
\* The node of the main line whose owner may force the block interval to
\* expire.
TriggerNext ==
  \/ LineStep
  \/ ForkEngine
  \/ TriggerBlockGeneration

TriggerSpec == LineInit /\ [][TriggerNext]_vars

\* ------------------------------------------------------------ progress
\* A node with a fresh store and the first block of the main line, whose
\* peers hold the next two blocks of the main line, with every transaction and DAG node at hand and
\* collaborators that report no failure.
ProgressBoots ==
  {Boot(MainLine(1), MainBlock(1), -1, d, s, m,
        {MainBlock(2), MainBlock(3)}) :
     d \in BOOLEAN, s \in BOOLEAN, m \in BOOLEAN}

ProgressInit == Start(ProgressBoots, Digests, DagNodes)

\* the miner finds a proof
ProofFound == ProofSearchGiven(TRUE) /\ Calm'

ProgressNext ==
  \/ LineStep
  \/ ForkEngine
  \/ PeerAddBlock

\* the reactor keeps running the state machine, the engine's workers keep
\* running the block they were given and the miner finds a proof in the end
ProgressSpec ==
  /\ ProgressInit /\ [][ProgressNext]_vars
  /\ WF_vars(LineStep) /\ WF_vars(ForkEngine) /\ WF_vars(ProofFound)

\* ------------------------------------------------------------ reset
\* MainChain::Reset: the chain holds the genesis block only
ResetChain == [chain |-> MainLine(0), heaviest |-> MainBlock(0).hash]

\* the owner of the coordinator calls Reset() between two steps of the state
\* machine
Reset ==
  /\ state # Aborted
  /\ resets < MaxResets
  /\ resets' = resets + 1
  /\ last_executed_block' = GENESIS_DIGEST
  /\ last_processed_block' = GENESIS_DIGEST
  /\ chain' = ResetChain.chain
  /\ heaviest' = ResetChain.heaviest
  /\ obs' = NoObs
  /\ UNCHANGED <<smVars, current_block, next_block, pending_txs,
                 blocks_to_common_ancestor, timerVars, next_block_time,
                 setupVars, trigger, storeVars, stored_txs, dag_nodes,
                 execution_state, executing_txs, waited, high, rejected,
                 deliveries, validated>>

\* A node with a fresh store and two blocks of the main line above the
\* genesis block, with every transaction and DAG node at hand, whose owner
\* may call Reset().
ResetBoots ==
  {Boot(MainLine(2), MainBlock(2), -1, d, s, m, {}) :
     d \in BOOLEAN, s \in BOOLEAN, m \in BOOLEAN}

ResetInit == Start(ResetBoots, Digests, DagNodes)

ResetNext ==
  \/ OnReloadState
  \/ OnReset
  \/ OnSynchronising
  \/ OnSynchronised
  \/ OnPreExecBlockValidation
  \/ OnWaitForTransactions
  \/ OnSynergeticExecution
  \/ OnScheduleBlockExecution
  \/ OnWaitForExecution
  \/ OnPostExecBlockValidation
  \/ OnNewSynergeticExecution
  \/ OnPackNewBlock
  \/ OnExecuteNewBlock
  \/ OnWaitForNewBlockExecution
  \/ OnProofSearch
  \/ OnTransmitBlock
  \/ EngineRun
  \/ Reset

ResetSpec == ResetInit /\ [][ResetNext]_vars

\* ------------------------------------------------------------ defects
\* blocks at height 2 that fail one structural check each: the number of
\* lanes, the number of slices, the size of the previous hash
WrongLanesBlock == [Block(205, 2, 2, {1}, {}) EXCEPT !.log2_num_lanes = 1]

WrongSlicesBlock == [Block(206, 2, 2, {1}, {}) EXCEPT !.num_slices = 2]

ShortHashBlock ==
  [Block(207, 2, 2, {1}, {}) EXCEPT
     !.previous_hash_size = DIGEST_LENGTH_BYTES - 1]

DefectBlocks ==
  {WrongNumberBlock, WrongLanesBlock, WrongSlicesBlock, ShortHashBlock}

\* A restarted node at the tip of the main line whose peers hold the next
\* block of the main line and one block that fails a structural check, with
\* every transaction and DAG node at hand.
DefectBoots ==
  {Boot(MainLine(1), MainBlock(1), 1, FALSE, s, FALSE, {b, MainBlock(2)}) :
     s \in BOOLEAN, b \in DefectBlocks}

DefectInit == Start(DefectBoots, Digests, DagNodes)

\* the steps of the state machine while it follows the chain, whatever its
\* collaborators answer
DefectNext ==
  \/ OnReloadState
  \/ OnReset
  \/ OnSynchronising
  \/ OnSynchronised
  \/ OnPreExecBlockValidation
  \/ OnWaitForTransactions
  \/ OnSynergeticExecution
  \/ OnScheduleBlockExecution
  \/ OnWaitForExecution
  \/ OnPostExecBlockValidation
  \/ EngineRun
  \/ PeerAddBlock

DefectSpec == DefectInit /\ [][DefectNext]_vars

\* ------------------------------------------------------------ claims
\* C1 as the specification states it: right after a step that commits the
\* state of a block B, the store's current root is B.merkle_hash and the
\* engine's last processed digest is B.hash
C1_CommitMatchesBlock ==
  obs.commit # NullBlock =>
    /\ current_hash = obs.commit.merkle_hash
    /\ last_processed_block = obs.commit.hash

C3_FailureKeepsLastExecuted ==
  [][(obs'.outcome = "fail" /\ state' = "RESET")
       => last_executed_block' = last_executed_block]_vars

\* a failed step went to RESET when the last executed digest had advanced
C3_Witness ==
  /\ obs.outcome = "fail"
  /\ state = "RESET"
  /\ last_executed_block # GENESIS_DIGEST

\* C4: at every entry to SYNCHRONISING, the blocks that post-execution
\* validation rejected since the last entry, and that no peer delivered
\* again, are not in the chain
C4_RejectedBlockLeavesChain ==
  state = "SYNCHRONISING" => \A h \in rejected : ~HasBlock(chain, h)

\* SYNCHRONISING is entered after a rejection
C4_Witness ==
  /\ state = "SYNCHRONISING"
  /\ rejected # {}

\* C5: the node has processed the main line up to its tip MainBlock(2), and
\* the heaviest block becomes ForkBlock3, which shares the ancestor
\* MainBlock(1) with it. With no collaborator failing, a revert of
\* OnSynchronising made while the tip of the main line is the last processed
\* block targets the ancestor's snapshot; the only commits are that of
\* ForkBlock2, made on the snapshots up to the ancestor's while the tip of
\* the main line is the last executed block, and then that of ForkBlock3,
\* made while ForkBlock2 is the last executed block, each with the root the
\* block declares; and the last executed block ends at ForkBlock3
C5_ForkConvergence ==
  /\ [][(/\ obs'.handler = "OnSynchronising"
         /\ obs'.reverts # <<>>
         /\ last_processed_block = MainBlock(2).hash) =>
           obs'.reverts = <<(<<MainBlock(1).block_number,
                               MainBlock(1).merkle_hash>>)>>]_vars
  /\ [][obs'.commit # NullBlock =>
          \/ /\ obs'.commit = ForkBlock2
             /\ last_executed_block = MainBlock(2).hash
             /\ commits = {<<n, MainBlock(n).merkle_hash>> : n \in 0..1}
             /\ current_hash' = ForkBlock2.merkle_hash
             /\ last_executed_block' = ForkBlock2.hash
          \/ /\ obs'.commit = ForkBlock3
             /\ last_executed_block = ForkBlock2.hash
             /\ current_hash' = ForkBlock3.merkle_hash
             /\ last_executed_block' = ForkBlock3.hash]_vars
  /\ (heaviest = ForkBlock3.hash
        /\ last_processed_block = MainBlock(2).hash)
       ~> (last_executed_block = ForkBlock3.hash)

\* the node switched to the fork: both fork blocks passed validation, their
\* snapshots follow the ancestor's and the tip of the fork is the last
\* executed block
C5_Witness ==
  /\ last_executed_block = ForkBlock3.hash
  /\ validated = {ForkBlock2.hash, ForkBlock3.hash}
  /\ commits = {<<n, MainBlock(n).merkle_hash>> : n \in 0..1}
                 \cup {<<ForkBlock2.block_number, ForkBlock2.merkle_hash>>,
                       <<ForkBlock3.block_number, ForkBlock3.merkle_hash>>}

\* C6: a stay in WAIT_FOR_TRANSACTIONS lasts at most
\* WAIT_BEFORE_ASKING_FOR_MISSING_TX_INTERVAL + WAIT_FOR_TX_TIMEOUT_INTERVAL
\* plus one polling delay, and it ends in SYNERGETIC_EXECUTION with all
\* digests present and the DAG ready, or in RESET with the block removed
C6_TxWaitBound ==
  /\ [](state = "WAIT_FOR_TRANSACTIONS" =>
          waited <= WAIT_BEFORE_ASKING_FOR_MISSING_TX_INTERVAL
                      + WAIT_FOR_TX_TIMEOUT_INTERVAL + TxWaitDelay)
  /\ [][(state = "WAIT_FOR_TRANSACTIONS"
           /\ state' # "WAIT_FOR_TRANSACTIONS") =>
          \/ /\ state' = "SYNERGETIC_EXECUTION"
             /\ BlockDigests(current_block) \subseteq stored_txs
             /\ (dag => SatisfyEpoch(dag_nodes, current_block.dag_epoch))
          \/ /\ state' = "RESET"
             /\ ~HasBlock(chain', current_block.hash)]_vars

\* a stay that lasts the two intervals: the next entry ends it
C6_Witness ==
  /\ state = "WAIT_FOR_TRANSACTIONS"
  /\ have_asked_for_missing_txs
  /\ waited = WAIT_BEFORE_ASKING_FOR_MISSING_TX_INTERVAL
                + WAIT_FOR_TX_TIMEOUT_INTERVAL

\* C7 as the specification states it: between successful reverts the block
\* numbers of the commits grow strictly, and a successful revert targets a
\* snapshot that was committed before, or the genesis snapshot
C7_OrderedCommits ==
  [][/\ obs'.commit # NullBlock => obs'.commit.block_number > high
     /\ \A i \in 1..Len(obs'.reverts) :
          \/ obs'.reverts[i] = <<0, GENESIS_MERKLE_ROOT>>
          \/ obs'.reverts[i] \in commits]_vars

\* C8 as the specification states it: no handler step ends in an abort
C8_NoAbort == state # Aborted

\* C9: whatever the transient fields hold, OnReset leaves all four empty and
\* returns SYNCHRONISING, and resetting the result again changes nothing
C9_IdempotentReset ==
  LET r == ResetFields(current_block, next_block, pending_txs,
                       blocks_to_common_ancestor)
      again == ResetFields(r.current_block, r.next_block, r.pending_txs,
                           r.blocks_to_common_ancestor)
  IN  /\ r.current_block = NullBlock
      /\ r.next_block = NullBlock
      /\ r.pending_txs = NullSet
      /\ r.blocks_to_common_ancestor = <<>>
      /\ r.next = "SYNCHRONISING"
      /\ again = r
      /\ obs.handler = "OnReset" =>
           /\ state = "SYNCHRONISING"
           /\ current_block = NullBlock
           /\ next_block = NullBlock
           /\ pending_txs = NullSet
           /\ blocks_to_common_ancestor = <<>>

\* OnReset ran on a cached ancestor path and a current block
C9_Witness ==
  /\ obs.handler = "OnReset"
  /\ {"current_block", "blocks_to_common_ancestor"} \subseteq obs.cleared

\* C10: QueryExecutorStatus maps IDLE to IDLE, ACTIVE to RUNNING,
\* TRANSACTIONS_UNAVAILABLE to STALLED, EXECUTION_ABORTED and
\* EXECUTION_FAILED to ERROR, for the state the engine is in and for all five
C10_ExecutorStatusMap ==
  LET expected(es) ==
        CASE es = "IDLE" -> "IDLE"
          [] es = "ACTIVE" -> "RUNNING"
          [] es = "TRANSACTIONS_UNAVAILABLE" -> "STALLED"
          [] es = "EXECUTION_ABORTED" -> "ERROR"
          [] es = "EXECUTION_FAILED" -> "ERROR"
  IN  /\ execution_state \in ExecutionState
      /\ QueryExecutorStatus(execution_state) = expected(execution_state)
      /\ \A es \in ExecutionState : QueryExecutorStatus(es) = expected(es)

\* the coordinator saw the engine stalled and went to RESET
C10_Witness ==
  /\ obs.handler = "OnWaitForExecution"
  /\ obs.outcome = "fail"
  /\ execution_state = "TRANSACTIONS_UNAVAILABLE"

\* ---------------------------------------------------------------- C11
\* the step Given has no second outcome: from the state it was taken in,
\* with the same answers, no successor other than nxt can be reached
Only(Given, nxt) == Given => ~ENABLED (Given /\ vars' # nxt)

\* every handler of the state machine, with the answers of the collaborators
\* it calls held fixed, leaves the coordinator in the one successor nxt
HandlersOnly(nxt) ==
  /\ \A revert_ok, revert_success_dag \in BOOLEAN :
       Only(ReloadStateGiven(revert_ok, revert_success_dag), nxt)
  /\ Only(OnReset, nxt)
  /\ \A revert_ok, genesis_revert_ok, dag_revert_ok \in BOOLEAN :
       Only(SynchronisingGiven(revert_ok, genesis_revert_ok, dag_revert_ok),
            nxt)
  /\ \A should_generate \in BOOLEAN, w \in Weights :
       Only(SynchronisedGiven(should_generate, w), nxt)
  /\ \A valid_miner, prepare_ok \in BOOLEAN, w \in Weights :
       Only(PreExecBlockValidationGiven(valid_miner, w, prepare_ok), nxt)
  /\ Only(OnWaitForTransactions, nxt)
  /\ \A prepare_ok, validate_ok \in BOOLEAN :
       Only(SynergeticExecutionGiven(prepare_ok, validate_ok), nxt)
  /\ \A status \in ScheduleStatus :
       /\ Only(ScheduleBlockExecutionGiven(status), nxt)
       /\ Only(ExecuteNewBlockGiven(status), nxt)
  /\ Only(OnWaitForExecution, nxt)
  /\ \A dag_answer \in {"true", "false"},
        revert_ok, genesis_revert_ok \in BOOLEAN :
       Only(PostExecBlockValidationGiven(dag_answer, revert_ok,
                                         genesis_revert_ok), nxt)
  /\ \A prepare_answer \in {"ok", "fail"}, validate_ok \in BOOLEAN :
       Only(NewSynergeticExecutionGiven(prepare_answer, validate_ok), nxt)
  /\ \A thrown \in BOOLEAN, txs \in PackChoices :
       Only(PackNewBlockGiven(thrown, txs), nxt)
  /\ Only(OnWaitForNewBlockExecution, nxt)
  /\ \A found \in BOOLEAN : Only(ProofSearchGiven(found), nxt)
  /\ \A answer \in BlockStatus \cup {"throw"} :
       Only(TransmitBlockGiven(answer), nxt)

\* C11: determinism. Two coordinators in the same state that are given the
\* same answers by their collaborators take the same step: a handler step
\* with its answers fixed has exactly one successor, in every variable, the
\* records of the collaborator calls it issued included.
C11_Determinism == [][\A nxt \in {vars'} : HandlersOnly(nxt)]_vars

\* ---------------------------------------------------------------- C12
\* the states in which a block of the chain is being executed
SyncPipeline ==
  {"PRE_EXEC_BLOCK_VALIDATION", "WAIT_FOR_TRANSACTIONS",
   "SYNERGETIC_EXECUTION", "SCHEDULE_BLOCK_EXECUTION", "WAIT_FOR_EXECUTION",
   "POST_EXEC_BLOCK_VALIDATION"}

\* the states in which a new block is being made
MintPipeline ==
  {"NEW_SYNERGETIC_EXECUTION", "PACK_NEW_BLOCK", "EXECUTE_NEW_BLOCK",
   "WAIT_FOR_NEW_BLOCK_EXECUTION", "PROOF_SEARCH", "TRANSMIT_BLOCK"}

\* C12 as stated: in every reachable configuration whose state is neither
\* RESET, RELOAD_STATE nor SYNCHRONISED the current block is non-null, the
\* states NEW_SYNERGETIC_EXECUTION through TRANSMIT_BLOCK and SYNCHRONISING
\* at handler entry included.
C12_CurrentBlockNonNull ==
  state \in (SyncPipeline \cup MintPipeline \cup {"SYNCHRONISING"})
    => current_block # NullBlock

\* C12 as the code has it: the current block is non-null in SYNCHRONISED
\* and while a block of the chain is executed (PRE_EXEC_BLOCK_VALIDATION
\* through POST_EXEC_BLOCK_VALIDATION), and it is null in the whole minting
\* pipeline, NEW_SYNERGETIC_EXECUTION through TRANSMIT_BLOCK.
C12_CurrentBlockWhereUsed ==
  /\ state \in (SyncPipeline \cup {"SYNCHRONISED"})
       => current_block # NullBlock
  /\ state \in MintPipeline => current_block = NullBlock

\* a new block is about to be transmitted and there is no current block
C12_Witness ==
  /\ state = "TRANSMIT_BLOCK"
  /\ previous_state = "PROOF_SEARCH"
  /\ current_block = NullBlock
  /\ next_block # NullBlock

\* ---------------------------------------------------------------- C13
\* C13 as stated: next_block is non-null only if the state is one of
\* PACK_NEW_BLOCK, EXECUTE_NEW_BLOCK, WAIT_FOR_NEW_BLOCK_EXECUTION,
\* PROOF_SEARCH or TRANSMIT_BLOCK.
C13_NextBlockOnlyFromPack ==
  next_block # NullBlock
    => state \in MintPipeline \ {"NEW_SYNERGETIC_EXECUTION"}

\* C13 as the code has it: next_block is non-null exactly in the minting
\* pipeline, which starts at NEW_SYNERGETIC_EXECUTION, and possibly in the
\* RESET that follows it, until OnReset drops it; in every other state it
\* is null.
C13_NextBlockInMintPipeline ==
  /\ next_block # NullBlock => state \in MintPipeline \cup {"RESET"}
  /\ state \in MintPipeline => next_block # NullBlock

\* the new block is still held in the RESET that follows its transmission
C13_Witness ==
  /\ state = "RESET"
  /\ previous_state = "TRANSMIT_BLOCK"
  /\ next_block # NullBlock

\* ---------------------------------------------------------------- C14
\* the last element of a non-empty sequence
Last(path) == path[Len(path)]

\* C14 as stated: whenever the cached ancestor path is non-empty, its last
\* element is a block whose (merkle_hash, block_number) is committed in the
\* store, in particular right after SYNCHRONISING popped the path and kept
\* a residue of at least THRESHOLD_FOR_FAST_SYNCING blocks.
C14_PathEndsCommitted ==
  blocks_to_common_ancestor # <<>>
    => HashExists(commits, Last(blocks_to_common_ancestor).merkle_hash,
                  Last(blocks_to_common_ancestor).block_number)

\* the block OnSynchronising works on (lines 407-410)
Working ==
  IF current_block = NullBlock THEN GetBlock(chain, heaviest)
  ELSE current_block

\* C14 as the code has it: the common parent, the last element of the path
\* OnSynchronising works on, is committed in the store whenever the handler
\* moves on to PRE_EXEC_BLOCK_VALIDATION, and the store then stands at its
\* root. The handler pops it, so a path that stays cached has at least
\* THRESHOLD_FOR_FAST_SYNCING blocks and ends in the current block, the one
\* about to be executed; it is cached only while that block is executed and
\* in the RESET that follows.
C14_PathEndsAtCurrentBlock ==
  /\ [](blocks_to_common_ancestor # <<>>
         => state \in SyncPipeline \cup {"RESET"})
  /\ []((blocks_to_common_ancestor # <<>> /\ state \in SyncPipeline)
         => /\ Len(blocks_to_common_ancestor) >= THRESHOLD_FOR_FAST_SYNCING
            /\ Last(blocks_to_common_ancestor) = current_block)
  /\ [][(/\ state = "SYNCHRONISING"
          /\ state' = "PRE_EXEC_BLOCK_VALIDATION"
          /\ last_processed_block # GENESIS_DIGEST)
         => LET parent == CommonParent(LookupPath(Working).path)
            IN  /\ HashExists(commits', parent.merkle_hash,
                              parent.block_number)
                /\ current_hash' = parent.merkle_hash
                /\ current_block' = NextOnPath(LookupPath(Working).path)]_vars

\* a long catch-up: the path stays cached after the pop, and its last
\* element, the block about to be executed, is not committed yet
C14_Witness ==
  /\ state = "PRE_EXEC_BLOCK_VALIDATION"
  /\ previous_state = "SYNCHRONISING"
  /\ blocks_to_common_ancestor # <<>>
  /\ ~HashExists(commits, Last(blocks_to_common_ancestor).merkle_hash,
                 Last(blocks_to_common_ancestor).block_number)

\* ---------------------------------------------------------------- C15
\* C15: in one stay in WAIT_FOR_TRANSACTIONS the pending digest set is built
\* from the slices of the block once, by the first run of the handler, which
\* finds it null; every later run finds it built and only takes digests
\* out of it; it is null again on reaching SYNERGETIC_EXECUTION and once the
\* RESET that follows a timeout has completed.
C15_PendingBuiltOnce ==
  /\ [][(state = "WAIT_FOR_TRANSACTIONS"
          /\ obs'.handler = "OnWaitForTransactions")
         => /\ IF previous_state # "WAIT_FOR_TRANSACTIONS"
               THEN /\ pending_txs = NullSet
                    /\ state' = "WAIT_FOR_TRANSACTIONS"
                         => pending_txs' =
                              {d \in BlockDigests(current_block) :
                                 d \notin stored_txs}
               ELSE /\ pending_txs # NullSet
                    /\ state' = "WAIT_FOR_TRANSACTIONS"
                         => /\ pending_txs' # NullSet
                            /\ pending_txs' \subseteq pending_txs
            /\ state' = "SYNERGETIC_EXECUTION" => pending_txs' = NullSet
            /\ state' = "RESET" => pending_txs' = pending_txs]_vars
  /\ [][(state = "RESET" /\ state' # "RESET") => pending_txs' = NullSet]_vars
  /\ [](pending_txs # NullSet
         => state \in {"WAIT_FOR_TRANSACTIONS", "RESET"})

\* a stay that built the set, asked the peers for what was missing, and
\* left for SYNERGETIC_EXECUTION once the last digest had been taken out
C15_Witness ==
  /\ state = "SYNERGETIC_EXECUTION"
  /\ previous_state = "WAIT_FOR_TRANSACTIONS"
  /\ have_asked_for_missing_txs
  /\ BlockDigests(current_block) # {}
  /\ pending_txs = NullSet

\* ---------------------------------------------------------------- C16
\* a node whose chain holds the genesis block only and that is on its way to
\* SYNCHRONISED, not making a block
ColdRun ==
  /\ chain = MainLine(0)
  /\ next_block = NullBlock
  /\ state # "SYNCHRONISED"

\* C16 as stated: on a fresh node, whose heaviest block is the genesis block
\* and whose last processed digest is GENESIS, the coordinator goes through
\* RELOAD_STATE, RESET, SYNCHRONISING, SYNCHRONISED and commits nothing.
C16_ColdStartNoCommit ==
  /\ [][(ColdRun /\ state' # state)
         => /\ <<state, state'>> \in
                 {<<"RELOAD_STATE", "RESET">>, <<"RESET", "SYNCHRONISING">>,
                  <<"SYNCHRONISING", "SYNCHRONISED">>}
            /\ commits' = commits]_vars
  /\ (ColdRun /\ state = "RELOAD_STATE") ~> (state = "SYNCHRONISED")

\* C16 as the code has it: on a fresh node the coordinator goes through
\* RELOAD_STATE, RESET and SYNCHRONISING, then executes the genesis block
\* like any other (PRE_EXEC_BLOCK_VALIDATION, WAIT_FOR_TRANSACTIONS,
\* SYNERGETIC_EXECUTION, SCHEDULE_BLOCK_EXECUTION, WAIT_FOR_EXECUTION,
\* POST_EXEC_BLOCK_VALIDATION), commits its state as number 0 in the one
\* step that leaves POST_EXEC_BLOCK_VALIDATION, and after RESET and
\* SYNCHRONISING reaches SYNCHRONISED with the genesis block as the last
\* executed one.
C16_ColdStartExecutesGenesis ==
  /\ [][(ColdRun /\ state' # state)
         => /\ <<state, state'>> \in
                 {<<"RELOAD_STATE", "RESET">>, <<"RESET", "SYNCHRONISING">>,
                  <<"SYNCHRONISING",
                    IF last_processed_block = GENESIS_DIGEST
                    THEN "PRE_EXEC_BLOCK_VALIDATION" ELSE "SYNCHRONISED">>,
                  <<"PRE_EXEC_BLOCK_VALIDATION", "WAIT_FOR_TRANSACTIONS">>,
                  <<"WAIT_FOR_TRANSACTIONS", "SYNERGETIC_EXECUTION">>,
                  <<"SYNERGETIC_EXECUTION", "SCHEDULE_BLOCK_EXECUTION">>,
                  <<"SCHEDULE_BLOCK_EXECUTION", "WAIT_FOR_EXECUTION">>,
                  <<"WAIT_FOR_EXECUTION", "POST_EXEC_BLOCK_VALIDATION">>,
                  <<"POST_EXEC_BLOCK_VALIDATION", "RESET">>}
            /\ IF state = "POST_EXEC_BLOCK_VALIDATION"
               THEN /\ commits = {}
                    /\ commits' = {<<0, GENESIS_MERKLE_ROOT>>}
                    /\ obs'.commit = MainBlock(0)
               ELSE commits' = commits]_vars
  /\ (ColdRun /\ state = "RELOAD_STATE")
       ~> (/\ state = "SYNCHRONISED"
           /\ last_executed_block = MainBlock(0).hash
           /\ commits = {<<0, GENESIS_MERKLE_ROOT>>})

\* the fresh node is synchronised on the genesis block, which it executed
C16_Witness ==
  /\ state = "SYNCHRONISED"
  /\ previous_state = "SYNCHRONISING"
  /\ chain = MainLine(0)
  /\ last_executed_block = MainBlock(0).hash
  /\ commits = {<<0, GENESIS_MERKLE_ROOT>>}

\* ---------------------------------------------------------------- C17
\* C17: linear catch-up. On a node whose chain holds valid blocks above what
\* it has executed, every block goes through PRE_EXEC_BLOCK_VALIDATION,
\* WAIT_FOR_TRANSACTIONS, SYNERGETIC_EXECUTION, SCHEDULE_BLOCK_EXECUTION,
\* WAIT_FOR_EXECUTION, POST_EXEC_BLOCK_VALIDATION and RESET in this order;
\* the state of each block is committed once, each block right after its
\* parent, and in that step the transactions of the block, and no other, are
\* marked EXECUTED; no other step of the catch-up commits or marks; the run
\* ends in SYNCHRONISED with the hash of the tip as the
\* last executed block.
C17_LinearCatchUp ==
  /\ [][(state \in SyncPipeline /\ state' # state)
         => <<state, state'>> \in
              {<<"PRE_EXEC_BLOCK_VALIDATION", "WAIT_FOR_TRANSACTIONS">>,
               <<"WAIT_FOR_TRANSACTIONS", "SYNERGETIC_EXECUTION">>,
               <<"SYNERGETIC_EXECUTION", "SCHEDULE_BLOCK_EXECUTION">>,
               <<"SCHEDULE_BLOCK_EXECUTION", "WAIT_FOR_EXECUTION">>,
               <<"WAIT_FOR_EXECUTION", "POST_EXEC_BLOCK_VALIDATION">>,
               <<"POST_EXEC_BLOCK_VALIDATION", "RESET">>}]_vars
  /\ [][IF state = "POST_EXEC_BLOCK_VALIDATION" /\ state' = "RESET"
        THEN /\ obs'.commit = current_block
             /\ current_block.previous_hash = last_executed_block
             /\ last_executed_block' = current_block.hash
             /\ commits' = commits \cup
                             {<<current_block.block_number,
                                current_block.merkle_hash>>}
             /\ obs'.marked = BlockDigests(current_block)
        ELSE state \notin MintPipeline
               => /\ obs'.commit = NullBlock
                  /\ commits' \subseteq commits
                  /\ obs'.marked = {}
                  /\ last_executed_block' = last_executed_block]_vars
  /\ \A k \in 0..LineHeight :
       (state = "RELOAD_STATE" /\ heaviest = MainBlock(k).hash)
         ~> (/\ state = "SYNCHRONISED"
             /\ last_executed_block = MainBlock(k).hash
             /\ high = k
             /\ current_hash = MainBlock(k).merkle_hash
             /\ <<k, MainBlock(k).merkle_hash>> \in commits)

\* the node caught up with the whole line: every block is committed and the
\* tip is the last executed block
C17_Witness ==
  /\ state = "SYNCHRONISED"
  /\ previous_state = "SYNCHRONISING"
  /\ heaviest = MainBlock(LineHeight).hash
  /\ last_executed_block = MainBlock(LineHeight).hash
  /\ high = LineHeight
  /\ <<LineHeight, MainBlock(LineHeight).merkle_hash>> \in commits

\* ---------------------------------------------------------------- C18
\* C18 as stated, on a node with a DAG: on a Merkle mismatch for a block B
\* that is not a genesis block, POST_EXEC_BLOCK_VALIDATION either leaves the
\* engine's last processed digest at the hash of B's previous block, the
\* store having been reverted to it, or resets it to GENESIS; in both cases
\* it removes B from the chain, commits nothing, leaves the last executed
\* block as it is and goes to RESET.
C18_MismatchRecovery ==
  [][(/\ state = "POST_EXEC_BLOCK_VALIDATION"
      /\ InvalidBlock(current_block, current_hash)
      /\ dag
      /\ obs'.handler = "OnPostExecBlockValidation")
     => LET previous_block == GetBlock(chain, current_block.previous_hash)
        IN  /\ state' = "RESET"
            /\ obs'.removed = {current_block.hash}
            /\ obs'.commit = NullBlock
            /\ commits' \subseteq commits
            /\ last_executed_block' = last_executed_block
            /\ \/ /\ previous_block # NullBlock
                  /\ last_processed_block' = previous_block.hash
                  /\ current_hash' = previous_block.merkle_hash
               \/ last_processed_block' = GENESIS_DIGEST]_vars

\* ---------------------------------------------------------------- C19
\* C19: in one stay in WAIT_FOR_TRANSACTIONS the peers are asked for the
\* missing transactions at most once, on a re-entry that finds the ask
\* deadline expired, and with the pending set, which holds every digest of the
\* block that is missing; the overall timeout is armed in that step and in
\* no other; the block is removed, with next state RESET, only on a re-entry
\* that finds the peers asked and that timeout expired, and the handler goes
\* to RESET in no other case.
C19_AskOnceThenTimeout ==
  [][(state = "WAIT_FOR_TRANSACTIONS"
      /\ obs'.handler = "OnWaitForTransactions")
     => LET reentry == previous_state = "WAIT_FOR_TRANSACTIONS"
            missing == {d \in BlockDigests(current_block) :
                          d \notin stored_txs}
        IN  /\ obs'.asked # NullSet
                 => /\ reentry
                    /\ ~have_asked_for_missing_txs
                    /\ HasExpired(wait_before_asking_for_missing_tx)
                    /\ obs'.asked = pending_txs
                    /\ missing \subseteq obs'.asked
                    /\ obs'.asked \subseteq BlockDigests(current_block)
                    /\ have_asked_for_missing_txs'
                    /\ state' = "WAIT_FOR_TRANSACTIONS"
                         => wait_for_tx_timeout' =
                              WAIT_FOR_TX_TIMEOUT_INTERVAL - TxWaitDelay
            /\ (reentry /\ have_asked_for_missing_txs)
                 => /\ obs'.asked = NullSet
                    /\ have_asked_for_missing_txs'
                    /\ wait_for_tx_timeout' <= wait_for_tx_timeout
            /\ ~have_asked_for_missing_txs' => wait_for_tx_timeout' = 0
            /\ obs'.removed # {}
                 => /\ reentry
                    /\ have_asked_for_missing_txs
                    /\ HasExpired(wait_for_tx_timeout)
                    /\ obs'.removed = {current_block.hash}
                    /\ state' = "RESET"
            /\ state' = "RESET" => obs'.removed # {}]_vars

\* the stay ended in the removal of the block, after the peers were asked
C19_Witness ==
  /\ state = "RESET"
  /\ previous_state = "WAIT_FOR_TRANSACTIONS"
  /\ have_asked_for_missing_txs
  /\ obs.removed = {current_block.hash}
  /\ pending_txs # NullSet
  /\ pending_txs # {}

\* ---------------------------------------------------------------- C20
\* C20: the mint path. OnSynchronised starts a new block only on the tip of
\* the chain, with mining on and the block time reached; the block N has the
\* hash of the tip T as its previous hash and the number of T plus one; the
\* coordinator takes N through NEW_SYNERGETIC_EXECUTION, PACK_NEW_BLOCK,
\* EXECUTE_NEW_BLOCK, WAIT_FOR_NEW_BLOCK_EXECUTION, PROOF_SEARCH and
\* TRANSMIT_BLOCK in this order; the step that adds N to the chain hands N
\* to the block sink and makes it the last executed block, and no other
\* step hands a block to the sink; a block that was started is transmitted.
C20_MintPath ==
  /\ [][(state = "SYNCHRONISED" /\ state' = "NEW_SYNERGETIC_EXECUTION")
         => /\ mining /\ mining_enabled /\ BlockTimeReached
            /\ current_block.hash = heaviest
            /\ next_block'.previous_hash = current_block.hash
            /\ next_block'.block_number = current_block.block_number + 1]_vars
  /\ [][(state \in MintPipeline /\ state' # state)
         => /\ <<state, state'>> \in
                 {<<"NEW_SYNERGETIC_EXECUTION", "PACK_NEW_BLOCK">>,
                  <<"PACK_NEW_BLOCK", "EXECUTE_NEW_BLOCK">>,
                  <<"EXECUTE_NEW_BLOCK", "WAIT_FOR_NEW_BLOCK_EXECUTION">>,
                  <<"WAIT_FOR_NEW_BLOCK_EXECUTION", "PROOF_SEARCH">>,
                  <<"PROOF_SEARCH", "TRANSMIT_BLOCK">>,
                  <<"TRANSMIT_BLOCK", "RESET">>}
            /\ next_block'.previous_hash = next_block.previous_hash
            /\ next_block'.block_number = next_block.block_number]_vars
  /\ [][IF state = "TRANSMIT_BLOCK" /\ state' = "RESET"
        THEN /\ ~HasBlock(chain, next_block.hash)
             /\ next_block \in chain'
             /\ heaviest' = next_block.hash
             /\ obs'.sink = next_block
             /\ last_executed_block' = next_block.hash
        ELSE obs'.sink = NullBlock]_vars
  /\ (state = "NEW_SYNERGETIC_EXECUTION")
       ~> (/\ state = "RESET"
           /\ next_block # NullBlock
           /\ obs.sink = next_block
           /\ last_executed_block = next_block.hash)

\* the new block went to the chain and to the sink, on top of the tip it
\* was started on
C20_Witness ==
  /\ state = "RESET"
  /\ previous_state = "TRANSMIT_BLOCK"
  /\ next_block # NullBlock
  /\ obs.sink = next_block
  /\ next_block.miner = "self"
  /\ last_executed_block = next_block.hash
  /\ heaviest = next_block.hash
  /\ HasBlock(chain, next_block.previous_hash)
  /\ next_block.block_number
       = GetBlock(chain, next_block.previous_hash).block_number + 1

\* the step is the call of TriggerBlockGeneration()
TriggerCalled == trigger = "none" /\ trigger' # "none"

\* the step is the first run of the SYNCHRONISED handler after a call made
\* with mining on
TriggerVisit == trigger \in State /\ obs'.handler = "OnSynchronised"

WellFormed(b) ==
  /\ HasBlock(chain, b.previous_hash)
  /\ b.block_number = GetBlock(chain, b.previous_hash).block_number + 1
  /\ LaneCount(b.log2_num_lanes) = num_lanes
  /\ b.num_slices = num_slices
  /\ b.previous_hash_size = DIGEST_LENGTH_BYTES

\* C22: in PRE_EXEC_BLOCK_VALIDATION the next state is WAIT_FOR_TRANSACTIONS
\* with the chain untouched exactly when every check passes: for the genesis
\* block the size of the previous hash, for any other block the structural
\* checks, the miner and the weight under a stake oracle and the preparation
\* of the work queue under a synergetic manager; any failing check removes
\* the block from the chain and leads to RESET
C22_PreExecValidation ==
  [][\A valid_miner \in BOOLEAN, w \in Weights, prepare_ok \in BOOLEAN :
       PreExecBlockValidationGiven(valid_miner, w, prepare_ok) =>
         LET cb     == current_block
             passes ==
               IF cb.previous_hash = GENESIS_DIGEST
               THEN cb.previous_hash_size = DIGEST_LENGTH_BYTES
               ELSE /\ WellFormed(cb)
                    /\ stake => valid_miner /\ cb.weight = w
                    /\ synergetic_exec_mgr => prepare_ok
         IN  IF passes
             THEN /\ state' = "WAIT_FOR_TRANSACTIONS"
                  /\ chain' = chain /\ heaviest' = heaviest
                  /\ obs'.removed = {}
             ELSE /\ state' = "RESET"
                  /\ HasBlock(chain, cb.hash)
                  /\ ~HasBlock(chain', cb.hash)
                  /\ obs'.removed = {cb.hash}]_vars

\* a block that fails a structural check was removed from the chain
C22_Witness ==
  /\ state = "RESET"
  /\ obs.handler = "OnPreExecBlockValidation"
  /\ obs.removed # {}
  /\ \E b \in DefectBlocks : obs.removed = {b.hash}

\* C23 as the specification states it: in SYNERGETIC_EXECUTION with a
\* synergetic manager and a block that is not a genesis block, any failure
\* (the previous block is not in the chain, the work queue cannot be
\* prepared, the work does not validate) removes the current block from the
\* chain and leads to RESET; otherwise the next state is
\* SCHEDULE_BLOCK_EXECUTION
C23_FailureRemovesBlock ==
  [][\A prepare_ok \in BOOLEAN, validate_ok \in BOOLEAN :
       SynergeticExecutionGiven(prepare_ok, validate_ok) =>
         LET cb    == current_block
             used  == cb.previous_hash # GENESIS_DIGEST /\ synergetic_exec_mgr
             fails == \/ ~HasBlock(chain, cb.previous_hash)
                      \/ ~prepare_ok
                      \/ ~validate_ok
         IN  IF used /\ fails
             THEN state' = "RESET" /\ ~HasBlock(chain', cb.hash)
             ELSE /\ state' = "SCHEDULE_BLOCK_EXECUTION"
                  /\ chain' = chain /\ heaviest' = heaviest]_vars

\* C24: in SYNCHRONISING with last-processed = GENESIS the coordinator enters
\* PRE_EXEC_BLOCK_VALIDATION exactly when the previous hash of the current
\* block is GENESIS, goes to RESET when the previous block is not in the
\* chain, and otherwise replaces the current block by its predecessor, one
\* height lower, and stays; the walk never leaves the heights 0..tip height
\* and reaches PRE_EXEC_BLOCK_VALIDATION.  With last-processed # GENESIS and
\* the current block's hash equal to it the next state is SYNCHRONISED
C24_WalkBackToGenesis ==
  /\ [][\A revert_ok \in BOOLEAN, genesis_revert_ok \in BOOLEAN,
           dag_revert_ok \in BOOLEAN :
          SynchronisingGiven(revert_ok, genesis_revert_ok, dag_revert_ok) =>
            LET cb == IF current_block = NullBlock
                      THEN GetBlock(chain, heaviest) ELSE current_block
            IN  IF GENESIS_DIGEST = last_processed_block
                THEN /\ cb.block_number \in
                          0..GetBlock(chain, heaviest).block_number
                     /\ IF cb.previous_hash = GENESIS_DIGEST
                        THEN /\ state' = "PRE_EXEC_BLOCK_VALIDATION"
                             /\ current_block' = cb
                        ELSE IF ~HasBlock(chain, cb.previous_hash)
                        THEN state' = "RESET"
                        ELSE /\ state' = "SYNCHRONISING"
                             /\ current_block'.hash = cb.previous_hash
                             /\ current_block'.block_number =
                                  cb.block_number - 1
                ELSE cb.hash = last_processed_block =>
                       state' = "SYNCHRONISED" /\ current_block' = cb]_vars
  /\ (state = "SYNCHRONISING" /\ GENESIS_DIGEST = last_processed_block)
       ~> (/\ state = "PRE_EXEC_BLOCK_VALIDATION"
           /\ current_block.previous_hash = GENESIS_DIGEST)

\* the walk from the tip at height LineHeight has reached the genesis block
C24_Witness ==
  /\ state = "PRE_EXEC_BLOCK_VALIDATION"
  /\ previous_state = "SYNCHRONISING"
  /\ GENESIS_DIGEST = last_processed_block
  /\ current_block = MainBlock(0)
  /\ heaviest = MainBlock(LineHeight).hash

\* C25 as the specification states it: in the fork reconciliation of
\* SYNCHRONISING, when the store does not hold the snapshot of the common
\* parent, last-processed becomes GENESIS, the store is reverted to genesis
\* and the next state is RESET; when the snapshot exists and the revert of
\* the store or of the DAG fails, the next state is RESET and last-processed
\* is unchanged
C25_ReconciliationFailure ==
  [][\A revert_ok \in BOOLEAN, genesis_revert_ok \in BOOLEAN,
        dag_revert_ok \in BOOLEAN :
       LET cb == IF current_block = NullBlock
                 THEN GetBlock(chain, heaviest) ELSE current_block
       IN
       (/\ SynchronisingGiven(revert_ok, genesis_revert_ok, dag_revert_ok)
        /\ cb # NullBlock
        /\ last_processed_block \notin {GENESIS_DIGEST, cb.hash}
        /\ LookupPath(cb).success
        /\ Len(LookupPath(cb).path) >= 2) =>
         LET common_parent == CommonParent(LookupPath(cb).path)
         IN  IF ~HashExists(commits, common_parent.merkle_hash,
                            common_parent.block_number)
             THEN /\ last_processed_block' = GENESIS_DIGEST
                  /\ current_hash' = GENESIS_MERKLE_ROOT
                  /\ commits' = {}
                  /\ state' = "RESET"
             ELSE IF ~revert_ok \/ ~dag_revert_ok
             THEN /\ state' = "RESET"
                  /\ last_processed_block' = last_processed_block
             ELSE state' = "PRE_EXEC_BLOCK_VALIDATION"]_vars

\* C26 as the specification states it: a path to the common ancestor that is
\* kept after an iteration of SYNCHRONISING has consumed its common parent,
\* the rest (which ends at the current block) being at least as long as the
\* fast-sync threshold, is still there at the next iteration, which consumes
\* one element of it without a new lookup: no step outside SYNCHRONISING
\* changes the cached path
C26_CachedPathKept ==
  [][(/\ Len(blocks_to_common_ancestor) >= THRESHOLD_FOR_FAST_SYNCING
      /\ Last(blocks_to_common_ancestor) = current_block
      /\ state \notin {"SYNCHRONISING", Aborted}) =>
       blocks_to_common_ancestor' = blocks_to_common_ancestor]_vars

C28_ResetNotifiesOracle ==
  [][state = "RESET" /\ state' # state =>
       /\ obs'.handler = "OnReset"
       /\ obs'.notified =
            IF stake /\ next_block # NullBlock THEN next_block
            ELSE IF stake /\ current_block # NullBlock THEN current_block
            ELSE NullBlock]_vars

\* the oracle was handed the block the node was minting
C28_Witness ==
  /\ obs.handler = "OnReset"
  /\ stake
  /\ obs.notified # NullBlock
  /\ obs.notified.miner = "self"
  /\ "next_block" \in obs.cleared

\* C29: RELOAD_STATE always leads to RESET; last-processed and last-executed
\* become the hash of the heaviest block when that block is not the genesis
\* block and the revert of the store, and of the DAG when there is one, to
\* its snapshot succeeded, and both are unchanged otherwise
C29_ReloadState ==
  [][\A revert_ok \in BOOLEAN, revert_success_dag \in BOOLEAN :
       ReloadStateGiven(revert_ok, revert_success_dag) =>
         LET tip      == GetBlock(chain, heaviest)
             reverted == /\ revert_ok
                         /\ HashExists(commits, tip.merkle_hash,
                                       tip.block_number)
                         /\ dag => revert_success_dag
         IN  /\ state' = "RESET"
             /\ IF tip.previous_hash # GENESIS_DIGEST /\ reverted
                THEN /\ last_processed_block' = tip.hash
                     /\ last_executed_block' = tip.hash
                ELSE /\ last_processed_block' = last_processed_block
                     /\ last_executed_block' = last_executed_block]_vars

\* a node with a DAG reloaded the state of its heaviest block
C29_Witness ==
  /\ state = "RESET"
  /\ obs.handler = "OnReloadState"
  /\ dag
  /\ heaviest # MainBlock(0).hash
  /\ last_processed_block = heaviest
  /\ last_executed_block = heaviest

\* the state a wait state of the pipelines goes to, given the state e of the
\* engine and the state done that follows a finished execution
AfterWait(e, done) ==
  IF e = "IDLE" THEN done
  ELSE IF e = "ACTIVE" THEN state
  ELSE "RESET"

\* C30: SCHEDULE_BLOCK_EXECUTION (EXECUTE_NEW_BLOCK) goes to
\* WAIT_FOR_EXECUTION (WAIT_FOR_NEW_BLOCK_EXECUTION) exactly when there is a
\* current (next) block and the engine answers SCHEDULED, and to RESET
\* otherwise; the wait state goes to POST_EXEC_BLOCK_VALIDATION
\* (PROOF_SEARCH) when the engine is idle, stays while it is running, and
\* goes to RESET without a commit when it stalled or failed
C30_ScheduleAndPoll ==
  [][/\ \A status \in ScheduleStatus :
          /\ ScheduleBlockExecutionGiven(status) =>
               state' = IF current_block # NullBlock /\ status = "SCHEDULED"
                        THEN "WAIT_FOR_EXECUTION" ELSE "RESET"
          /\ ExecuteNewBlockGiven(status) =>
               state' = IF next_block # NullBlock /\ status = "SCHEDULED"
                        THEN "WAIT_FOR_NEW_BLOCK_EXECUTION" ELSE "RESET"
     /\ OnWaitForExecution =>
          state' = AfterWait(execution_state, "POST_EXEC_BLOCK_VALIDATION")
     /\ OnWaitForNewBlockExecution =>
          state' = AfterWait(execution_state, "PROOF_SEARCH")
     /\ (/\ state \in {"WAIT_FOR_EXECUTION", "WAIT_FOR_NEW_BLOCK_EXECUTION"}
         /\ state' = "RESET") =>
          /\ execution_state \in {"TRANSACTIONS_UNAVAILABLE",
                                  "EXECUTION_ABORTED", "EXECUTION_FAILED"}
          /\ obs'.commit = NullBlock
          /\ commits' = commits /\ current_hash' = current_hash]_vars

\* the execution of the block the node was minting stalled
C30_Witness ==
  /\ state = "RESET"
  /\ obs.handler = "OnWaitForNewBlockExecution"
  /\ execution_state = "TRANSACTIONS_UNAVAILABLE"
  /\ next_block # NullBlock

\* C31: PROOF_SEARCH stays in PROOF_SEARCH while the miner finds no proof,
\* leaving last-processed and the block being minted as they are whatever
\* the heaviest block is, and goes to TRANSMIT_BLOCK when the miner finds
\* one, with the digest of the block recomputed and last-processed set to it
C31_ProofSearch ==
  [][\A found \in BOOLEAN :
       ProofSearchGiven(found) =>
         IF found
         THEN /\ state' = "TRANSMIT_BLOCK"
              /\ next_block'.hash # EmptyDigest
              /\ next_block'.hash = UpdateDigest(next_block')
              /\ next_block' = [next_block EXCEPT !.hash = next_block'.hash]
              /\ last_processed_block' = next_block'.hash
         ELSE /\ state' = "PROOF_SEARCH"
              /\ next_block' = next_block
              /\ last_processed_block' = last_processed_block]_vars

\* the search went on after the heaviest block had changed
C31_Witness ==
  /\ state = "PROOF_SEARCH"
  /\ obs.handler = "OnProofSearch"
  /\ next_block # NullBlock
  /\ heaviest # next_block.previous_hash
  /\ next_block.hash = EmptyDigest


\* C32: TRANSMIT_BLOCK always goes to RESET, and when addBlock answers
\* anything but ADDED, or throws, no transaction status is updated,
\* last-executed stays as it was and the block sink is not called
C32_TransmitBlock ==
  [][\A answer \in BlockStatus \cup {"throw"} :
       TransmitBlockGiven(answer) =>
         /\ state' = "RESET"
         /\ answer # "ADDED" =>
              /\ obs'.marked = {}
              /\ obs'.sink = NullBlock
              /\ last_executed_block' = last_executed_block
              /\ chain' = chain]_vars

\* a minted block was refused: it is not in the chain and last-executed is
\* not its digest
C32_Witness ==
  /\ state = "RESET"
  /\ obs.handler = "OnTransmitBlock"
  /\ obs.outcome = "fail"
  /\ next_block # NullBlock
  /\ ~HasBlock(chain, next_block.hash)
  /\ last_executed_block # next_block.hash
  /\ obs.sink = NullBlock


\* C33: RELOAD_STATE is the initial state and no step enters it again; the
\* only state that follows RESET is SYNCHRONISING; and SYNCHRONISING is only
\* entered from RESET, so that a block that entered PRE_EXEC_BLOCK_VALIDATION
\* or NEW_SYNERGETIC_EXECUTION passes through RESET before the coordinator is
\* in SYNCHRONISING again
C33_TransitionStructure ==
  [][/\ state' = "RELOAD_STATE" => state = "RELOAD_STATE"
     /\ state = "RELOAD_STATE" /\ obs'.handler = "OnReloadState"
          => state' # "RELOAD_STATE"
     /\ state = "RESET" => state' \in {"RESET", "SYNCHRONISING"}
     /\ OnReset => state' = "SYNCHRONISING"
     /\ state' = "SYNCHRONISING" => state \in {"RESET", "SYNCHRONISING"}
     /\ state' = "SYNCHRONISING" /\ state = "SYNCHRONISING"
          => previous_state \in {"RESET", "SYNCHRONISING"}]_vars

\* back in SYNCHRONISING through RESET after a block had gone through the
\* validation and execution states
C33_Witness ==
  /\ state = "SYNCHRONISING"
  /\ previous_state = "RESET"
  /\ obs.handler = "OnReset"
  /\ "current_block" \in obs.cleared
  /\ validated # {}


\* C34: the pointers are valid where the handlers use them: current_block
\* is non-null when the coordinator is in SYNCHRONISED or in a state from
\* PRE_EXEC_BLOCK_VALIDATION through POST_EXEC_BLOCK_VALIDATION, next_block
\* is non-null in every state from NEW_SYNERGETIC_EXECUTION through
\* TRANSMIT_BLOCK, and pending_txs is non-null whenever
\* WAIT_FOR_TRANSACTIONS is about to hand it to issueCallForMissingTxs,
\* which it does on a re-entry only
C34_PointersValidAtUse ==
  /\ state \in {"SYNCHRONISED", "PRE_EXEC_BLOCK_VALIDATION",
                "WAIT_FOR_TRANSACTIONS", "SYNERGETIC_EXECUTION",
                "WAIT_FOR_EXECUTION", "POST_EXEC_BLOCK_VALIDATION"}
       => current_block # NullBlock
  /\ state \in {"NEW_SYNERGETIC_EXECUTION", "PACK_NEW_BLOCK",
                "WAIT_FOR_NEW_BLOCK_EXECUTION", "PROOF_SEARCH",
                "TRANSMIT_BLOCK"}
       => next_block # NullBlock
  /\ (/\ state = "WAIT_FOR_TRANSACTIONS"
      /\ Reentered(state, previous_state)
      /\ ~have_asked_for_missing_txs
      /\ HasExpired(wait_before_asking_for_missing_tx))
       => pending_txs # NullSet
  /\ obs.handler = "OnWaitForTransactions" /\ obs.asked # NullSet
       => obs.asked \subseteq Digests

\* the missing transactions of the current block were asked for
C34_Witness ==
  /\ state = "WAIT_FOR_TRANSACTIONS"
  /\ obs.handler = "OnWaitForTransactions"
  /\ obs.asked # NullSet
  /\ obs.asked # {}
  /\ current_block # NullBlock
  /\ have_asked_for_missing_txs


\* ---------------------------------------------------------------- C35
\* the run of OnPostExecBlockValidation reaches the call
\* dag_->RevertToEpoch(previous_block->body.block_number): the block is
\* invalid and the block below it is in the chain
CallsDagRevert ==
  /\ state = "POST_EXEC_BLOCK_VALIDATION"
  /\ InvalidBlock(current_block, current_hash)
  /\ GetBlock(chain, current_block.previous_hash) # NullBlock

\* the run of OnNewSynergeticExecution reaches the call
\* PrepareWorkQueue(*next_block_, *previous_block)
CallsPrepareWorkQueue ==
  /\ state = "NEW_SYNERGETIC_EXECUTION"
  /\ synergetic_exec_mgr
  /\ dag

\* C35 as stated: a handler calls the DAG only when a DAG is configured, in
\* POST_EXEC_BLOCK_VALIDATION on a Merkle mismatch with the previous block
\* present in particular, and the block looked up under previous_hash is
\* present where NEW_SYNERGETIC_EXECUTION hands it to PrepareWorkQueue
C35_OptionalCollaborators ==
  [][/\ (OnPostExecBlockValidation /\ CallsDagRevert) => dag
     /\ (OnNewSynergeticExecution /\ CallsPrepareWorkQueue)
          => GetBlock(chain, next_block.previous_hash) # NullBlock]_vars


\* ---------------------------------------------------------------- C36
\* C36 as stated, for the entry to SYNCHRONISING that follows a mint attempt,
\* where the last write of the engine's last processed digest is the one
\* OnProofSearch made: the digest is GENESIS or the hash of a block that is
\* in the main chain
C36_LastProcessedInChain ==
  [][(OnReset /\ previous_state = "TRANSMIT_BLOCK")
       => /\ state' = "SYNCHRONISING"
          /\ \/ last_processed_block' = GENESIS_DIGEST
             \/ HasBlock(chain', last_processed_block')]_vars


\* ---------------------------------------------------------------- C37
\* C37 as stated: WAIT_FOR_TRANSACTIONS removes the block from the chain only
\* if, when it removes it, one of the block's transaction digests is still
\* absent from the storage layer or the DAG epoch of the block is not
\* satisfied
C37_RemovedOnlyIfMissing ==
  [][(OnWaitForTransactions /\ obs'.removed # {})
       => \/ StillMissing(BlockDigests(current_block)) # {}
          \/ dag /\ ~SatisfyEpoch(dag_nodes, current_block.dag_epoch)]_vars


\* ---------------------------------------------------------------- C38
\* C38 as stated: whenever OnReset hands a block to the stake oracle through
\* updateCurrentBlock, that block is in the main chain at that moment
C38_NotifiedBlockInChain ==
  [][(OnReset /\ obs'.notified # NullBlock)
       => HasBlock(chain, obs'.notified.hash)]_vars


\* ---------------------------------------------------------------- C39
\* the coordinator is SYNCHRONISED on the heaviest block
SynchronisedAtTip ==
  /\ state = "SYNCHRONISED"
  /\ current_block # NullBlock
  /\ current_block.hash = heaviest

\* C39: with valid blocks whose transactions are at hand, an engine that
\* finishes every block, a miner that finds a proof in the end, a store
\* whose operations succeed and a driver that keeps running, the
\* coordinator is SYNCHRONISED on the heaviest block again and again, so on
\* the last heaviest block once the heaviest block stops changing, and from
\* every state it reaches RESET or SYNCHRONISED
C39_Progress ==
  /\ []<>SynchronisedAtTip
  /\ []<>(state \in {"RESET", "SYNCHRONISED"})

\* SYNCHRONISED on a block a peer delivered while the node ran, after the
\* node had minted a block of its own
C39_Witness ==
  /\ SynchronisedAtTip
  /\ deliveries > 0
  /\ heaviest \in {b.hash : b \in network}
  /\ \E b \in chain : b.miner = "self"


\* ---------------------------------------------------------------- C40
\* C40 as stated: Reset() sets last-executed and the engine's last processed
\* digest to GENESIS and leaves the chain with the genesis block only, while
\* the state, current_block, next_block, pending_txs, the path to the common
\* ancestor and the store stay as they are; and after it no handler
\* dereferences a block it looked up in the chain and that is no longer
\* there, which only OnNewSynergeticExecution could do, the other lookups
\* being tested before use
C40_ResetThenNoStaleBlock ==
  [][/\ Reset =>
          /\ last_executed_block' = GENESIS_DIGEST
          /\ last_processed_block' = GENESIS_DIGEST
          /\ chain' = MainLine(0)
          /\ UNCHANGED <<state, current_block, next_block, pending_txs,
                         blocks_to_common_ancestor, storeVars>>
     /\ (resets > 0 /\ OnNewSynergeticExecution /\ CallsPrepareWorkQueue)
          => GetBlock(chain, next_block.previous_hash) # NullBlock]_vars

====
